---------------------------- MODULE Spec2Model ----------------------------
(***************************************************************************)
(* A model of coriolis-sim-3d: point objects near a rotating, oblate       *)
(* planet, their frame-tagged positions and velocities, the bounded        *)
(* trajectory history, the surface-contact state machine of Object::step   *)
(* and the per-frame loop of main.rs.                                      *)
(*                                                                         *)
(* Arithmetic.  The program computes in f64.  The model computes on the    *)
(* integers: every quantity is an integer number of grid units, every      *)
(* division and square root rounds to the nearest integer (as every f64    *)
(* operation rounds to the nearest representable value), and a unit        *)
(* vector is carried multiplied by UnitScale.  Angles of frame rotation    *)
(* are measured in quarter turns, the only angles whose sine and cosine    *)
(* are integers, so a frame conversion is exact; an angular rate is        *)
(* carried multiplied by RateScale, in quarter turns per time unit (one    *)
(* quarter turn stands for one radian in the force terms).  The physical   *)
(* constants keep their names and roles and are expressed in these units.  *)
(***************************************************************************)
EXTENDS Integers, Sequences, FiniteSets, TLC

(***************************************************************************)
(* Resolution of the arithmetic and bounds of the exploration.             *)
(***************************************************************************)
\* A unit vector (surface normal, east/north/up) is stored times UnitScale.
UnitScale == 10000
\* The sine and cosine of a latitude are stored times AngScale.
AngScale == 100
\* An angular rate (omega) is stored times RateScale: OMEGA is one quarter
\* turn in RateScale time units, and the time steps explored are multiples
\* of RateScale, so that every tick ends on a whole quarter turn.
RateScale == 2
\* Object::step keeps at most MAX_PATH_LEN history entries
\* (simulation/object.rs:16 sets 50000; the model explores a short queue).
MAX_PATH_LEN == 2
\* Ticks are explored while the global time stays within MaxTime.
MaxTime == 8

(***************************************************************************)
(* Program constants (simulation/mod.rs), in grid units.                   *)
(***************************************************************************)
OMEGA == 1
GM == 17600000
R_EQU == 400
R_POL == 300
\* ECC2 = (R_EQU^2 - R_POL^2) / R_EQU^2, kept as numerator and denominator.
ECC2_NUM == R_EQU * R_EQU - R_POL * R_POL
ECC2_DEN == R_EQU * R_EQU

(***************************************************************************)
(* Integer arithmetic with rounding to nearest.                            *)
(***************************************************************************)
Abs(a) == IF a < 0 THEN -a ELSE a

Sgn(a) == IF a < 0 THEN -1 ELSE IF a > 0 THEN 1 ELSE 0

Min(a, b) == IF a < b THEN a ELSE b

\* a / b rounded to the nearest integer, halves away from zero.
Div(a, b) ==
    LET n == Abs(a)
        d == Abs(b)
        q == n \div d
        r == n % d
        m == IF 2 * r >= d THEN q + 1 ELSE q
    IN  Sgn(a) * Sgn(b) * m

RECURSIVE SqrtSearch(_, _, _)
\* The largest k in lo..hi with k * k <= n.
SqrtSearch(n, lo, hi) ==
    IF lo >= hi THEN lo
    ELSE LET mid == (lo + hi + 1) \div 2
         IN  IF mid * mid <= n THEN SqrtSearch(n, mid, hi)
             ELSE SqrtSearch(n, lo, mid - 1)

\* The square root of n >= 0 rounded to the nearest integer.
Sqrt(n) ==
    LET k == SqrtSearch(n, 0, 46340)
    IN  IF n - k * k > k THEN k + 1 ELSE k

\* Sine and cosine of n quarter turns.
Sin(n) == CASE n % 4 = 0 -> 0 [] n % 4 = 1 -> 1 [] n % 4 = 2 -> 0 [] OTHER -> -1

Cos(n) == CASE n % 4 = 0 -> 1 [] n % 4 = 1 -> 0 [] n % 4 = 2 -> -1 [] OTHER -> 0

(***************************************************************************)
(* nalgebra::Vector3 as a triple <<x, y, z>>; y is the polar axis.         *)
(***************************************************************************)
Vector3(x, y, z) == <<x, y, z>>

zeros == <<0, 0, 0>>

VAdd(a, b) == <<a[1] + b[1], a[2] + b[2], a[3] + b[3]>>

VSub(a, b) == <<a[1] - b[1], a[2] - b[2], a[3] - b[3]>>

VNeg(a) == <<-a[1], -a[2], -a[3]>>

\* vector * integer scalar
VScale(a, k) == <<a[1] * k, a[2] * k, a[3] * k>>

\* vector / scalar
VDiv(a, d) == <<Div(a[1], d), Div(a[2], d), Div(a[3], d)>>

\* vector * (num / den): one rounding for each component
VMulRatio(a, num, den) == <<Div(a[1] * num, den), Div(a[2] * num, den), Div(a[3] * num, den)>>

dot(a, b) == a[1] * b[1] + a[2] * b[2] + a[3] * b[3]

cross(a, b) ==
    <<a[2] * b[3] - a[3] * b[2], a[3] * b[1] - a[1] * b[3], a[1] * b[2] - a[2] * b[1]>>

norm(a) == Sqrt(dot(a, a))

\* Rotation3 about the polar axis by wt quarter turns
rot_y(v, wt) ==
    Vector3(v[1] * Cos(wt) + v[3] * Sin(wt), v[2], -v[1] * Sin(wt) + v[3] * Cos(wt))

\* the part of vec orthogonal to the unit vector up (times UnitScale)
horizontal(vec, up) ==
    VSub(vec, VMulRatio(up, Div(dot(up, vec), UnitScale), UnitScale))

\* a / |a| as a unit vector times UnitScale
Normalize(a) == VMulRatio(a, UnitScale, norm(a))


\* a / |a| in the units of a itself
Normalize_unit(a) == VDiv(a, norm(a))

RECURSIVE GCD(_, _)
GCD(a, b) == IF b = 0 THEN a ELSE GCD(b, a % b)

(***************************************************************************)
(* simulation/mod.rs: the oblate spheroid.                                 *)
(***************************************************************************)
\* f64::to_radians for an angle in degrees: the angle in quarter turns
\* (the launch coordinates explored are multiples of 90 degrees).
to_radians(deg) == Div(deg, 90)

\* nphi(lat_r) = R_EQU / sqrt(1 - ECC2 * sin^2), lat_r in quarter turns;
\* numerator and denominator are both multiplied by R_EQU.
nphi(lat_r) ==
    Div(R_EQU * R_EQU, Sqrt(ECC2_DEN - ECC2_NUM * Sin(lat_r) * Sin(lat_r)))

pr(lat_r, elev) == (nphi(lat_r) + elev) * Cos(lat_r)

pz(lat_r, elev) ==
    (Div(nphi(lat_r) * (ECC2_DEN - ECC2_NUM), ECC2_DEN) + elev) * Sin(lat_r)

lat_lon_elev_to_vec3(lat, lon, elev) ==
    LET lat_r == to_radians(lat)
        lon_r == to_radians(lon)
        x == pr(lat_r, elev)
        y == pz(lat_r, elev)
    IN  Vector3(x * Sin(lon_r), y, x * Cos(lon_r))

\* (pos.y / r).asin(): a geocentric latitude is carried as its sine times
\* AngScale; its cosine is then sqrt(AngScale^2 - sine^2) >= 0.
asin(y, r) == Div(y * AngScale, r)

LatSin(lat_r_gc) == lat_r_gc

LatCos(lat_r_gc) == Sqrt(AngScale * AngScale - lat_r_gc * lat_r_gc)

\* earth_radius: 1 / sqrt((cos/R_EQU)^2 + (sin/R_POL)^2), with numerator
\* and denominator multiplied by R_EQU * R_POL * AngScale.
earth_radius(lat_r_gc) ==
    Div(R_EQU * R_POL * AngScale,
        norm(Vector3(LatCos(lat_r_gc) * R_POL, LatSin(lat_r_gc) * R_EQU, 0)))

\* surface_normal: (x / R_EQU^2, y / R_POL^2, z / R_EQU^2) normalised; the
\* three components are multiplied by (R_EQU * R_POL / gcd)^2 first.
NormalEqu == (R_POL \div GCD(R_EQU, R_POL)) * (R_POL \div GCD(R_EQU, R_POL))

NormalPol == (R_EQU \div GCD(R_EQU, R_POL)) * (R_EQU \div GCD(R_EQU, R_POL))

surface_normal(pos) ==
    Normalize(Vector3(pos[1] * NormalEqu, pos[2] * NormalPol, pos[3] * NormalEqu))

\* r_curv: sqrt(R_EQU^2 + R_POL^2 - r^2)^3 / R_EQU / R_POL
r_curv_of(coeff) == Div(Div(coeff * coeff * coeff, R_EQU), R_POL)

r_curv(pos) == r_curv_of(Sqrt(R_EQU * R_EQU + R_POL * R_POL - dot(pos, pos)))

(***************************************************************************)
(* simulation/position.rs: Position {t, pos, omega}.                       *)
(***************************************************************************)
Position_from_lat_lon_elev(lat, lon, elev) ==
    [t |-> 0, pos |-> lat_lon_elev_to_vec3(lat, lon, elev), omega |-> OMEGA]

\* variant: the coordinates are turned, the omega tag is left as it was
Position_to_omega_stale_tag(self, omega) ==
    IF self.omega = omega THEN self
    ELSE [t |-> self.t,
          pos |-> rot_y(self.pos, Div((self.omega - omega) * self.t, RateScale)),
          omega |-> self.omega]

\* variant: the angle is taken from the new rate alone, as if the
\* coordinates were those of the frame at rest
Position_to_omega_from_rest(self, omega) ==
    [t |-> self.t,
     pos |-> rot_y(self.pos, Div(-omega * self.t, RateScale)),
     omega |-> omega]

Position_to_omega(self, omega) ==
    IF self.omega = omega THEN self
    ELSE [t |-> self.t,
          pos |-> rot_y(self.pos, Div((self.omega - omega) * self.t, RateScale)),
          omega |-> omega]

\* variant: the vector is turned in the opposite sense
Position_dir_to_omega_reversed(self, vec, omega) ==
    rot_y(vec, Div((omega - self.omega) * self.t, RateScale))

Position_dir_to_omega(self, vec, omega) ==
    rot_y(vec, -Div((omega - self.omega) * self.t, RateScale))

\* grav: -gm / r / r / r * pos; the product with pos is taken before the
\* last division so that the quotient keeps its fraction.
grav_at(pos, gm, r) == VMulRatio(pos, -Div(Div(gm, r), r), r)

Position_grav(self, gm) == grav_at(self.pos, gm, norm(self.pos))

Position_centrifugal(self) ==
    VMulRatio(Vector3(self.pos[1], 0, self.pos[3]), self.omega * self.omega,
              RateScale * RateScale)

Position_increase(self, v) == [self EXCEPT !.pos = VAdd(self.pos, v)]

Position_increase_time(self, dt) == [self EXCEPT !.t = self.t + dt]

\* mul(x) with the factor x given as the ratio num / den
Position_mul(self, num, den) == [self EXCEPT !.pos = VMulRatio(self.pos, num, den)]

(***************************************************************************)
(* simulation/velocity.rs: Velocity {vel, omega}.                          *)
(***************************************************************************)
\* to_omega at the position pos (already in the velocity's frame): the
\* shear p x dw is added, then the axes are turned by dw * t
\* variant: the shear is added to the velocity after it has been turned
Velocity_turn_shear_after(vel, pos, dw, omega) ==
    [vel |-> VAdd(rot_y(vel, -Div(dw * pos.t, RateScale)),
                  Vector3(-Div(pos.pos[3] * dw, RateScale),
                          0,
                          Div(pos.pos[1] * dw, RateScale))),
     omega |-> omega]

Velocity_turn(vel, pos, dw, omega) ==
    [vel |-> rot_y(Vector3(vel[1] - Div(pos.pos[3] * dw, RateScale),
                           vel[2],
                           vel[3] + Div(pos.pos[1] * dw, RateScale)),
                   -Div(dw * pos.t, RateScale)),
     omega |-> omega]

\* variant: the position is used in the frame it is given in
Velocity_to_omega_pos_as_given(self, pos, omega) ==
    IF self.omega = omega THEN self
    ELSE Velocity_turn(self.vel, pos, omega - self.omega, omega)

Velocity_to_omega(self, pos, omega) ==
    IF self.omega = omega THEN self
    ELSE Velocity_turn(self.vel, Position_to_omega(pos, self.omega),
                       omega - self.omega, omega)

\* from_east_north_up: cos and sin of lon = atan2(x, z) are z and x over
\* the distance from the polar axis (atan2(0, 0) = 0 on the axis itself).
east_at(pos) ==
    IF pos[1] = 0 /\ pos[3] = 0
    THEN Vector3(UnitScale, 0, 0)
    ELSE Normalize(Vector3(pos[3], 0, -pos[1]))

east_north_up(east, up, e, n, u) ==
    VDiv(VAdd(VAdd(VScale(east, e), VScale(VDiv(cross(up, east), UnitScale), n)),
              VScale(up, u)),
         UnitScale)

Velocity_in_frame(pos, old_omega, e, n, u) ==
    Velocity_to_omega(
        [vel |-> east_north_up(
                     east_at(pos.pos),
                     Normalize(VNeg(VAdd(Position_grav(pos, GM), Position_centrifugal(pos)))),
                     e, n, u),
         omega |-> OMEGA],
        pos, old_omega)

Velocity_from_east_north_up(pos0, e, n, u) ==
    Velocity_in_frame(Position_to_omega(pos0, OMEGA), pos0.omega, e, n, u)

Velocity_coriolis(self) ==
    VMulRatio(cross(Vector3(0, self.omega, 0), self.vel), -2, RateScale)

Velocity_increase(self, v) == [self EXCEPT !.vel = VAdd(self.vel, v)]

Velocity_mul(self, num, den) == [self EXCEPT !.vel = VMulRatio(self.vel, num, den)]

(***************************************************************************)
(* Air density and elevation (used by SimState::drag only).                *)
(***************************************************************************)
\* Elevation of a point above the spheroid (pos_to_lat_lon_elev's third
\* result), taken along the radius.
elevation_at(pos, r) == r - earth_radius(asin(pos[2], r))

elevation(pos) == elevation_at(pos, norm(pos))

\* air_density(elev) = 1.225 * exp(-1.25e-4 * elev): SEA_LEVEL_DENSITY
\* halving with every HALF_HEIGHT of elevation.
SEA_LEVEL_DENSITY == 1225
HALF_HEIGHT == 50

RECURSIVE Halve(_, _)
Halve(x, n) == IF n <= 0 \/ x = 0 THEN x ELSE Halve(x \div 2, n - 1)

air_density(elev) == Halve(SEA_LEVEL_DENSITY, elev \div HALF_HEIGHT)

(***************************************************************************)
(* simulation/object.rs: SimState {pos, vel}.                              *)
(***************************************************************************)
counteraction_at(self, pos) ==
    Position_dir_to_omega(
        pos,
        VNeg(horizontal(Velocity_coriolis(Velocity_to_omega(self.vel, self.pos, OMEGA)),
                        surface_normal(pos.pos))),
        self.pos.omega)

SimState_coriolis_counteraction(self) ==
    counteraction_at(self, Position_to_omega(self.pos, OMEGA))

\* the velocity of the surface under pos, in the frame of pos
surf_vel(pos) ==
    Vector3(Div((OMEGA - pos.omega) * pos.pos[3], RateScale), 0,
            Div(-(OMEGA - pos.omega) * pos.pos[1], RateScale))

\* the velocity of the surface relative to the object
vel_diff(self) ==
    VSub(surf_vel(self.pos), Velocity_to_omega(self.vel, self.pos, self.pos.omega).vel)

SimState_friction(self, friction) == VScale(vel_diff(self), friction)

drag_of(diff, drag_coeff, density) ==
    VScale(diff, drag_coeff * density * norm(diff))

SimState_drag(self, drag_coeff) ==
    drag_of(vel_diff(self), drag_coeff,
            air_density(elevation(Position_to_omega(self.pos, OMEGA).pos)))

(***************************************************************************)
(* simulation/object.rs: Object.                                           *)
(***************************************************************************)
FreeFlight == [tag |-> "FreeFlight", alt |-> 0]

ConstantAltitude(alt) == [tag |-> "ConstantAltitude", alt |-> alt]

\* attractor: None, the closure of as_pendulum (captures coeff and pos0) or
\* the closure of cyclone (captures attractor_coeff and center_pos).
NoAttractor ==
    [kind |-> "None", coeff |-> 0, anchor |-> [t |-> 0, pos |-> zeros, omega |-> OMEGA]]

Object_new(pos, vel) ==
    [sim_state |-> [pos |-> pos, vel |-> vel],
     path |-> <<>>,
     gm |-> GM,
     drag_coeff |-> 0,
     friction |-> 0,
     attractor |-> NoAttractor,
     counteract_coriolis |-> FALSE,
     state |-> FreeFlight]

Object_with_const_alt(self, alt) == [self EXCEPT !.state = ConstantAltitude(alt)]

Object_as_pendulum(self, coeff) ==
    [self EXCEPT !.attractor =
        [kind |-> "Pendulum", coeff |-> coeff, anchor |-> self.sim_state.pos]]

Object_time(self) == self.sim_state.pos.t

Object_pos(self) == self.sim_state.pos

Object_vel(self) == self.sim_state.vel

\* variant: the time component of the derivative is 0.0
from_column_slice_no_time(vel, acc) ==
    <<vel[1], vel[2], vel[3], acc[1], acc[2], acc[3], 0>>

\* SVector::<f64, 7>::from_column_slice(&[vel.., acc.., 1.0])
from_column_slice(vel, acc) == <<vel[1], vel[2], vel[3], acc[1], acc[2], acc[3], 1>>

derivative_inflight_of(self, vel) ==
    from_column_slice(
        vel.vel,
        VAdd(VAdd(VAdd(Position_grav(Object_pos(self), self.gm),
                       Position_centrifugal(Object_pos(self))),
                  Velocity_coriolis(vel)),
             SimState_drag(self.sim_state, self.drag_coeff)))

Object_derivative_inflight(self) ==
    derivative_inflight_of(
        self, Velocity_to_omega(Object_vel(self), Object_pos(self), Object_pos(self).omega))

cyclone_pull(pos_diff, coeff, pos_norm) ==
    VMulRatio(pos_diff, Div(coeff, pos_norm), pos_norm)

attractor_call(a, pos_diff) ==
    CASE a.kind = "Pendulum" -> VScale(pos_diff, a.coeff)
      [] a.kind = "Cyclone" -> cyclone_pull(pos_diff, a.coeff, norm(pos_diff))
      [] OTHER -> zeros

Object_attraction_force(self) ==
    attractor_call(
        self.attractor,
        VSub(Position_to_omega(self.attractor.anchor, self.sim_state.pos.omega).pos,
             self.sim_state.pos.pos))

\* acc += (-v * v / (r + alt) - acc_up) * up
conform(acc, up, v, r_alt) ==
    VAdd(acc, VMulRatio(up, -Div(v * v, r_alt) - Div(dot(acc, up), UnitScale), UnitScale))

derivative_const_alt_of(self, alt, vel) ==
    from_column_slice(
        vel.vel,
        conform(VAdd(VAdd(VAdd(VAdd(Velocity_coriolis(vel),
                                    SimState_friction(self.sim_state, self.friction)),
                               SimState_drag(self.sim_state, self.drag_coeff)),
                          Object_attraction_force(self)),
                     IF self.counteract_coriolis
                     THEN SimState_coriolis_counteraction(self.sim_state)
                     ELSE Vector3(0, 0, 0)),
                surface_normal(Object_pos(self).pos),
                norm(vel.vel),
                r_curv(Object_pos(self).pos) + alt))

Object_derivative_const_alt(self, alt) ==
    derivative_const_alt_of(
        self, alt,
        Velocity_to_omega(Object_vel(self), Object_pos(self), Object_pos(self).omega))

\* variant: the derivative of free flight is taken in every flight state
Object_derivative_always_inflight(self) == Object_derivative_inflight(self)

Object_derivative(self) ==
    IF self.state.tag = "FreeFlight"
    THEN Object_derivative_inflight(self)
    ELSE Object_derivative_const_alt(self, self.state.alt)

\* variant: the shift leaves the time alone
Object_shift_frozen_time(self, dir, amount) ==
    [self EXCEPT !.sim_state =
        [pos |-> Position_increase(self.sim_state.pos,
                                   Vector3(dir[1] * amount, dir[2] * amount,
                                           dir[3] * amount)),
         vel |-> Velocity_increase(self.sim_state.vel,
                                   Vector3(dir[4] * amount, dir[5] * amount,
                                           dir[6] * amount))]]

\* variant: the two halves of the shift are taken the other way round
Object_shift_swapped(self, dir, amount) ==
    [self EXCEPT !.sim_state =
        [pos |-> Position_increase_time(
                     Position_increase(self.sim_state.pos,
                                       Vector3(dir[4] * amount, dir[5] * amount,
                                               dir[6] * amount)),
                     dir[7] * amount),
         vel |-> Velocity_increase(self.sim_state.vel,
                                   Vector3(dir[1] * amount, dir[2] * amount,
                                           dir[3] * amount))]]

\* impl State for Object: shift_in_place(dir, amount)
Object_shift_in_place(self, dir, amount) ==
    [self EXCEPT !.sim_state =
        [pos |-> Position_increase_time(
                     Position_increase(self.sim_state.pos,
                                       Vector3(dir[1] * amount, dir[2] * amount,
                                               dir[3] * amount)),
                     dir[7] * amount),
         vel |-> Velocity_increase(self.sim_state.vel,
                                   Vector3(dir[4] * amount, dir[5] * amount,
                                           dir[6] * amount))]]

(***************************************************************************)
(* numeric_algs::integration::RK4Integrator (spec section 4.5).            *)
(***************************************************************************)
\* the final shift by (k1 + 2 k2 + 2 k3 + k4) / 6
RK4_shift(start, h, k1, k2, k3, k4) ==
    Object_shift_in_place(
        start, [i \in 1..7 |-> Div(k1[i] + 2 * k2[i] + 2 * k3[i] + k4[i], 6)], h)

RK4_after_k3(start, h, k1, k2, k3) ==
    RK4_shift(start, h, k1, k2, k3,
              Object_derivative(Object_shift_in_place(start, k3, h)))

\* variant: the third derivative is taken at the second stage's state
\* shifted on, not at the original state shifted
RK4_after_k2_chained(start, h, k1, k2) ==
    RK4_after_k3(start, h, k1, k2,
                 Object_derivative(
                     Object_shift_in_place(Object_shift_in_place(start, k1, Div(h, 2)),
                                           k2, Div(h, 2))))

RK4_after_k2(start, h, k1, k2) ==
    RK4_after_k3(start, h, k1, k2,
                 Object_derivative(Object_shift_in_place(start, k2, Div(h, 2))))

RK4_after_k1(start, h, k1) ==
    RK4_after_k2(start, h, k1,
                 Object_derivative(Object_shift_in_place(start, k1, Div(h, 2))))

RK4_propagate_in_place(start, h) == RK4_after_k1(start, h, Object_derivative(start))

\* The formulas of the derivative are defined at a state: the position is
\* not the centre and, at constant altitude, the radicand of r_curv is not
\* negative and the radius of curvature plus the altitude is not zero.
\* Outside, the f64 code computes NaN or an infinity, which the grid does
\* not carry.
is_finite_at(self, r2) ==
    /\ r2 > 0
    /\ self.state.tag = "ConstantAltitude" =>
           /\ R_EQU * R_EQU + R_POL * R_POL - r2 >= 0
           /\ r_curv(Object_pos(self).pos) + self.state.alt # 0

Object_is_finite(self) ==
    is_finite_at(self, dot(Object_pos(self).pos, Object_pos(self).pos))

\* every state at which a step of length h takes a derivative, and the
\* result of the step, is finite
RK4_is_finite_4(start, h, k1, k2, k3, s4) ==
    /\ Object_is_finite(s4)
    /\ Object_is_finite(RK4_shift(start, h, k1, k2, k3, Object_derivative(s4)))

RK4_is_finite_3(start, h, k1, k2, s3) ==
    /\ Object_is_finite(s3)
    /\ RK4_is_finite_4(start, h, k1, k2, Object_derivative(s3),
                       Object_shift_in_place(start, Object_derivative(s3), h))

RK4_is_finite_2(start, h, k1, s2) ==
    /\ Object_is_finite(s2)
    /\ RK4_is_finite_3(start, h, k1, Object_derivative(s2),
                       Object_shift_in_place(start, Object_derivative(s2), Div(h, 2)))

RK4_is_finite(start, h) ==
    /\ Object_is_finite(start)
    /\ RK4_is_finite_2(start, h, Object_derivative(start),
                       Object_shift_in_place(start, Object_derivative(start), Div(h, 2)))

(***************************************************************************)
(* Object::step (object.rs:215-249), phase by phase.                       *)
(***************************************************************************)
\* lines 216-219: push the current state, drop the oldest entry on overflow
push_back(path, sim_state) == Append(path, sim_state)

pop_front_if_over(path) == IF Len(path) > MAX_PATH_LEN THEN Tail(path) ELSE path

\* variant: the history is never trimmed
Object_push_unbounded(self) ==
    [self EXCEPT !.path = push_back(self.path, self.sim_state)]

\* variant: on overflow the newest entry is dropped instead of the oldest
Object_push_drop_newest(self) ==
    [self EXCEPT !.path = IF Len(self.path) >= MAX_PATH_LEN
                          THEN self.path
                          ELSE push_back(self.path, self.sim_state)]

Object_push_history(self) ==
    [self EXCEPT !.path = pop_front_if_over(push_back(self.path, self.sim_state))]

\* Option<f64>
None == [some |-> FALSE, val |-> 0]

Some(x) == [some |-> TRUE, val |-> x]

\* variant: an object in free flight is never caught by the surface
maybe_target_r_no_contact(state, r, earth_r) ==
    CASE state.tag = "ConstantAltitude" -> Some(earth_r + state.alt)
      [] OTHER -> None

\* variant: an object in free flight at the surface radius is caught too
maybe_target_r_at_or_below(state, r, earth_r) ==
    CASE state.tag = "FreeFlight" /\ r <= earth_r -> Some(earth_r)
      [] state.tag = "ConstantAltitude" -> Some(earth_r + state.alt)
      [] OTHER -> None

\* lines 227-231: the match on self.state
maybe_target_r(state, r, earth_r) ==
    CASE state.tag = "FreeFlight" /\ r < earth_r -> Some(earth_r)
      [] state.tag = "ConstantAltitude" -> Some(earth_r + state.alt)
      [] OTHER -> None

\* lines 236-239: the position times target_r / r, then the inertial-frame
\* velocity vel0 times r / target_r, brought back to the position's frame
snap_state(pos1, vel0, r, target_r) ==
    [pos |-> pos1,
     vel |-> Velocity_to_omega(Velocity_mul(vel0, r, target_r), pos1, pos1.omega)]

\* variant: the position is scaled, the inertial velocity is kept as it is
Object_snap_keep_speed(self, r, earth_r, target_r) ==
    [self EXCEPT !.state = ConstantAltitude(target_r - earth_r),
                 !.sim_state =
                     snap_state(Position_mul(self.sim_state.pos, target_r, r),
                                Velocity_to_omega(Object_vel(self), Object_pos(self), 0),
                                r, r)]

\* variant: an object above its target radius is released to free flight
Object_snap_release(self, r, earth_r, target_r) ==
    [self EXCEPT !.state = IF r > target_r THEN FreeFlight
                           ELSE ConstantAltitude(target_r - earth_r),
                 !.sim_state =
                     snap_state(Position_mul(self.sim_state.pos, target_r, r),
                                Velocity_to_omega(Object_vel(self), Object_pos(self), 0),
                                r, target_r)]

\* variant: the scaled velocity is left in the inertial frame
Object_snap_left_inertial(self, r, earth_r, target_r) ==
    [self EXCEPT !.state = ConstantAltitude(target_r - earth_r),
                 !.sim_state =
                     [pos |-> Position_mul(self.sim_state.pos, target_r, r),
                      vel |-> Velocity_mul(
                                  Velocity_to_omega(Object_vel(self), Object_pos(self), 0),
                                  r, target_r)]]

\* variant: the altitude kept is the one the integrated position has
Object_snap_measured_alt(self, r, earth_r, target_r) ==
    [self EXCEPT !.state = ConstantAltitude(r - earth_r),
                 !.sim_state =
                     snap_state(Position_mul(self.sim_state.pos, target_r, r),
                                Velocity_to_omega(Object_vel(self), Object_pos(self), 0),
                                r, target_r)]

\* lines 234-239: set the state, scale the position by target_r / r and the
\* inertial-frame (omega = 0) velocity by r / target_r
Object_snap(self, r, earth_r, target_r) ==
    [self EXCEPT !.state = ConstantAltitude(target_r - earth_r),
                 !.sim_state =
                     snap_state(Position_mul(self.sim_state.pos, target_r, r),
                                Velocity_to_omega(Object_vel(self), Object_pos(self), 0),
                                r, target_r)]

\* line 243: the velocity component along the surface normal at pos
normal_velocity(self, pos) ==
    Div(dot(Velocity_to_omega(Object_vel(self), pos, OMEGA).vel, surface_normal(pos.pos)),
        UnitScale)

\* lines 244-247: if v_up < 0 { vel.increase(-v_up * normal); ... }
cancel_if_negative(self, pos, v_up) ==
    IF v_up < 0
    THEN [self EXCEPT !.sim_state.vel =
             Velocity_to_omega(
                 Velocity_increase(Velocity_to_omega(Object_vel(self), pos, OMEGA),
                                   VMulRatio(surface_normal(pos.pos), -v_up, UnitScale)),
                 Object_pos(self), Object_vel(self).omega)]
    ELSE self

\* variant: the vertical component of the velocity is kept as it is
Object_keep_normal(self, pos) == self

\* lines 241-247: cancel the vertical component of the velocity if negative
Object_cancel_normal(self, pos) == cancel_if_negative(self, pos, normal_velocity(self, pos))

\* lines 233-248: the body of `if let Some(target_r) = maybe_target_r`; the
\* result is the corrected object together with the locals of the call
contact_snapped(self, pos, r, earth_r, target, snapped) ==
    [obj |-> IF target.some THEN Object_cancel_normal(snapped, pos) ELSE self,
     pos |-> pos,
     r |-> r,
     earth_r |-> earth_r,
     maybe_target_r |-> target,
     snapped |-> snapped.sim_state]

contact_target(self, pos, r, earth_r, target) ==
    contact_snapped(self, pos, r, earth_r, target,
                    IF target.some THEN Object_snap(self, r, earth_r, target.val) ELSE self)

\* lines 224-231: lat_r_gc, earth_r and maybe_target_r
contact_radius(self, pos, r, earth_r) ==
    contact_target(self, pos, r, earth_r, maybe_target_r(self.state, r, earth_r))

\* line 223: r
contact_at(self, pos, r) ==
    contact_radius(self, pos, r, earth_radius(asin(pos.pos[2], r)))

\* lines 222-248: the surface-contact check and correction
Object_surface_contact(self) ==
    contact_at(self, Position_to_omega(Object_pos(self), OMEGA),
               norm(Position_to_omega(Object_pos(self), OMEGA).pos))

\* the record of one call of Object::step: the flight state and the state
\* on entry, the integrator's output and the locals of the contact check
step_record(self, dt, integrated, contact) ==
    [obj |-> contact.obj,
     dt |-> dt,
     state |-> self.state,
     entry |-> self.sim_state,
     integrated |-> integrated.sim_state,
     pos |-> contact.pos,
     r |-> contact.r,
     earth_r |-> contact.earth_r,
     maybe_target_r |-> contact.maybe_target_r,
     snapped |-> contact.snapped]

step_integrated(self, dt, integrated) ==
    step_record(self, dt, integrated, Object_surface_contact(integrated))

\* variant: the state is pushed onto the history after the integration
Object_step_push_late(self, dt) ==
    step_integrated(self, dt, Object_push_history(RK4_propagate_in_place(self, dt)))

\* Object::step together with the values it passes through
Object_step_run(self, dt) ==
    step_integrated(self, dt, RK4_propagate_in_place(Object_push_history(self), dt))

Object_step(self, dt) == Object_step_run(self, dt).obj

(***************************************************************************)
(* Object::draw and Object::status: the state shown for a time range       *)
(* max_t (object.rs:257-267, 352-363).                                     *)
(***************************************************************************)
\* path.iter().copied().chain(iter::once(self.sim_state))
chained_states(self) == Append(self.path, self.sim_state)

\* the predicate of take_while on the enumerated states (i counts from 0
\* in the code, from 1 here)
draw_takes(states, i, max_t) == i = 1 \/ states[i].pos.t < max_t

\* the number of states take_while lets through: the longest prefix of
\* states that all satisfy the predicate
take_while_len(states, max_t) ==
    CHOOSE n \in 0..Len(states) :
        /\ \A i \in 1..n : draw_takes(states, i, max_t)
        /\ n < Len(states) => ~draw_takes(states, n + 1, max_t)

\* lines 257-265: the states Object::draw collects, the trail it paints
Object_draw_states(self, max_t) ==
    SubSeq(chained_states(self), 1, take_while_len(chained_states(self), max_t))

\* line 267: states.last().unwrap(), the state drawn as the object
Object_draw_state(self, max_t) ==
    Object_draw_states(self, max_t)[Len(Object_draw_states(self, max_t))]

\* path.iter().rev().skip_while(|state| state.pos.t() > max_t).next(): the
\* position in path of the first entry from the back that skip_while does
\* not skip, 0 if it skips them all
rev_skip_while_next(path, max_t) ==
    CHOOSE k \in 0..Len(path) :
        /\ \A j \in (k + 1)..Len(path) : path[j].pos.t > max_t
        /\ k > 0 => ~(path[k].pos.t > max_t)

\* variant: a history without a qualifying entry gives its oldest entry
Object_status_state_oldest(self, max_t) ==
    IF max_t < Object_time(self)
    THEN IF rev_skip_while_next(self.path, max_t) > 0
         THEN self.path[rev_skip_while_next(self.path, max_t)]
         ELSE IF Len(self.path) > 0 THEN self.path[1] ELSE self.sim_state
    ELSE self.sim_state

\* lines 353-363: the state Object::status reports
Object_status_state(self, max_t) ==
    IF max_t < Object_time(self)
    THEN IF rev_skip_while_next(self.path, max_t) > 0
         THEN self.path[rev_skip_while_next(self.path, max_t)]
         ELSE self.sim_state
    ELSE self.sim_state

(***************************************************************************)
(* state/utils.rs: rings of objects around a centre.                       *)
(***************************************************************************)
\* the sphere radius of get_coords_at_dist (6371e3), in grid units
MEAN_RADIUS == 350

\* f64::to_degrees for an angle in quarter turns
to_degrees(quarters) == 90 * quarters

\* asin and atan2 at the points of the grid, in quarter turns: the
\* arguments are the components of a unit vector along an axis
asin_unit(z) == Sgn(z)

atan2(y, x) ==
    CASE y = 0 /\ x >= 0 -> 0
      [] y > 0 -> 1
      [] y < 0 -> -1
      [] OTHER -> 2

\* the point of the unit sphere at the angle ang from v_pos towards v_dir
point_at(v_pos, v_dir, ang) == VAdd(VScale(v_pos, Cos(ang)), VScale(v_dir, Sin(ang)))

\* v_dir = v_n * dir.cos() + v_e * dir.sin(), v_n = v_pos x v_e
direction_at(v_pos, v_e, dir) == VAdd(VScale(cross(v_pos, v_e), Cos(dir)), VScale(v_e, Sin(dir)))

\* (new_lat, new_lon) in degrees of the unit vector fpos
coords_of(fpos) == <<to_degrees(asin_unit(fpos[3])), to_degrees(atan2(fpos[2], fpos[1]))>>

coords_at(lat, lon, dir, ang) ==
    coords_of(
        Normalize_unit(
            point_at(Vector3(Cos(lat) * Cos(lon), Cos(lat) * Sin(lon), Sin(lat)),
                     direction_at(Vector3(Cos(lat) * Cos(lon), Cos(lat) * Sin(lon), Sin(lat)),
                                  Vector3(-Sin(lon), Cos(lon), 0), dir),
                     ang)))

get_coords_at_dist(lat, lon, dir, dist) ==
    coords_at(to_radians(lat), to_radians(lon), to_radians(dir), Div(dist, MEAN_RADIUS))

\* azim = 2.0 * PI / num_objects * index, in quarter turns
ring_azim(num_objects, index) == Div(4 * index, num_objects)

anticyclone_object(pos, vel, vel_up, azim) ==
    Object_new(pos, Velocity_from_east_north_up(pos, vel * Sin(azim), vel * Cos(azim), vel_up))

anticyclone(lat, lon, elev, vel, vel_up, num_objects) ==
    [k \in 1..num_objects |->
        anticyclone_object(Position_from_lat_lon_elev(lat, lon, elev), vel, vel_up,
                           ring_azim(num_objects, k - 1))]

\* variant: the launch velocity runs along the ring, not towards the centre
cyclone_at_swirling(center_pos, pos, attractor_coeff, vel, vel_up, azim) ==
    [Object_new(pos, Velocity_from_east_north_up(pos, vel * Cos(azim), -vel * Sin(azim),
                                                 vel_up))
        EXCEPT !.attractor = [kind |-> "Cyclone", coeff |-> attractor_coeff,
                              anchor |-> center_pos]]

\* Object::new(pos, vel).with_attractor(..): the closure captures
\* center_pos and attractor_coeff
cyclone_at(center_pos, pos, attractor_coeff, vel, vel_up, azim) ==
    [Object_new(pos, Velocity_from_east_north_up(pos, -vel * Sin(azim), -vel * Cos(azim),
                                                 vel_up))
        EXCEPT !.attractor = [kind |-> "Cyclone", coeff |-> attractor_coeff,
                              anchor |-> center_pos]]

cyclone_object(center_pos, coords, elev, attractor_coeff, vel, vel_up, azim) ==
    cyclone_at(center_pos, Position_from_lat_lon_elev(coords[1], coords[2], elev),
               attractor_coeff, vel, vel_up, azim)

cyclone(lat, lon, elev, radius, attractor_coeff, vel, vel_up, num_objects) ==
    [k \in 1..num_objects |->
        cyclone_object(
            Position_from_lat_lon_elev(lat, lon, elev),
            get_coords_at_dist(lat, lon, to_degrees(ring_azim(num_objects, k - 1)), radius),
            elev, attractor_coeff, vel, vel_up, ring_azim(num_objects, k - 1))]

(***************************************************************************)
(* state/description.rs: text descriptions of the initial objects.         *)
(***************************************************************************)
\* str::parse::<f64>: the numerals the text fields are given here; any
\* other text does not parse.
Numerals ==
    ("0" :> 0) @@ ("90" :> 90) @@ ("10" :> 10) @@ ("20" :> 20) @@ ("30" :> 30)
    @@ ("40" :> 40) @@ ("1" :> 1) @@ ("2" :> 2) @@ ("4" :> 4) @@ ("-10" :> -10)

parse(text) == IF text \in DOMAIN Numerals THEN Some(Numerals[text]) ELSE None

\* variant: the count is parsed with its sign and the sign dropped
parse_usize_signed(text) ==
    IF text \in DOMAIN Numerals THEN Some(Abs(Numerals[text])) ELSE None

\* str::parse::<usize>: a numeral with a minus sign does not parse
parse_usize(text) ==
    IF text \in DOMAIN Numerals /\ Numerals[text] >= 0 THEN Some(Numerals[text]) ELSE None

unwrap_or(opt, default) == IF opt.some THEN opt.val ELSE default

\* as_pendulum's coefficient in ObjectDescription::into_objects
PENDULUM_COEFF == 1

\* the kilometre of `radius * 1000.0_f64` and cyclone's attractor_coeff
\* (2e4) in ObjectDescription::into_objects, in grid units
KM == 35
CYCLONE_COEFF == 2000

ObjectDescription(kind, lat, lon, elev, vel_e, vel_n, vel_u, vel, azim) ==
    [kind |-> kind, lat |-> lat, lon |-> lon, elev |-> elev,
     vel_e |-> vel_e, vel_n |-> vel_n, vel_u |-> vel_u, vel |-> vel, azim |-> azim,
     n_particles |-> "", radius |-> ""]

\* a description of kind Cyclone {n_particles, radius, vel} or
\* Anticyclone {n_particles, vel}
RingDescription(kind, lat, lon, elev, n_particles, radius, vel) ==
    [kind |-> kind, lat |-> lat, lon |-> lon, elev |-> elev,
     vel_e |-> "", vel_n |-> "", vel_u |-> "", vel |-> vel, azim |-> "",
     n_particles |-> n_particles, radius |-> radius]

lat_f(self) == unwrap_or(parse(self.lat), 0)

lon_f(self) == unwrap_or(parse(self.lon), 0)

elev_f(self) == unwrap_or(parse(self.elev), 0)

create_object(lat, lon, elev, v_e, v_n, v_u) ==
    LET pos == Position_from_lat_lon_elev(lat, lon, elev)
        vel == Velocity_from_east_north_up(pos, v_e, v_n, v_u)
    IN  Object_new(pos, vel)

\* ObjectKind::Plane (named by main.rs and interface.rs): an object held at
\* its launch elevation, launched with speed vel towards azimuth azim
plane_objects(self) ==
    LET azim == to_radians(unwrap_or(parse(self.azim), 0))
        vel == unwrap_or(parse(self.vel), 0)
        vel_e == vel * Sin(azim)
        vel_n == vel * Cos(azim)
    IN  <<Object_with_const_alt(
            create_object(lat_f(self), lon_f(self), elev_f(self), vel_e, vel_n, 0),
            elev_f(self))>>

into_objects(self) ==
    CASE self.kind = "Free" ->
            LET vel_e == unwrap_or(parse(self.vel_e), 0)
                vel_n == unwrap_or(parse(self.vel_n), 0)
                vel_u == unwrap_or(parse(self.vel_u), 0)
            IN  <<create_object(lat_f(self), lon_f(self), elev_f(self), vel_e, vel_n, vel_u)>>
      [] self.kind = "Foucault" ->
            LET azim == to_radians(unwrap_or(parse(self.azim), 0))
                vel == unwrap_or(parse(self.vel), 0)
                vel_e == vel * Sin(azim)
                vel_n == vel * Cos(azim)
            IN  <<Object_as_pendulum(
                    create_object(lat_f(self), lon_f(self), elev_f(self), vel_e, vel_n, 0),
                    PENDULUM_COEFF)>>
      [] self.kind = "Cyclone" ->
            LET n_particles == unwrap_or(parse_usize(self.n_particles), 0)
                radius == unwrap_or(parse(self.radius), 0)
                vel == unwrap_or(parse(self.vel), 0)
            IN  cyclone(lat_f(self), lon_f(self), elev_f(self), radius * KM,
                        CYCLONE_COEFF, vel, 0, n_particles)
      [] self.kind = "Anticyclone" ->
            LET n_particles == unwrap_or(parse_usize(self.n_particles), 0)
                vel == unwrap_or(parse(self.vel), 0)
            IN  anticyclone(lat_f(self), lon_f(self), elev_f(self), vel, 0, n_particles)
      [] OTHER -> plane_objects(self)

RECURSIVE build_objects(_)
\* the loop of State::reset_state: objects.extend(object_def.into_objects())
build_objects(defs) ==
    IF defs = <<>> THEN <<>>
    ELSE into_objects(Head(defs)) \o build_objects(Tail(defs))

(***************************************************************************)
(* The initial-state definitions explored.                                 *)
(***************************************************************************)
DropFree == ObjectDescription("Free", "0", "0", "0", "0", "0", "0", "", "")

LaunchFree == ObjectDescription("Free", "0", "90", "10", "0", "0", "10", "", "")

NorthFree == ObjectDescription("Free", "0", "0", "high", "0", "40", "0", "", "")

Pendulum == ObjectDescription("Foucault", "0", "0", "0", "", "", "", "30", "0")

Plane == ObjectDescription("Plane", "0", "0", "20", "", "", "", "30", "90")

\* launched eastward along the surface: its first step of DEFAULT_TIME_STEP
\* ends at a radial distance equal to earth_radius
EastFree == ObjectDescription("Free", "0", "0", "0", "10", "0", "0", "", "")

StateDefinitions ==
    { <<>>, <<DropFree>>, <<LaunchFree>>, <<NorthFree, Plane>>, <<Plane, LaunchFree>>,
      <<LaunchFree, Plane>>, <<LaunchFree, DropFree>>, <<Pendulum, DropFree>>,
      <<EastFree>> }

(***************************************************************************)
(* state/mod.rs: State, and the redraw closure of main.rs.                 *)
(***************************************************************************)
VARIABLES
    t,                  \* State::t
    omega,              \* State::omega, the frame-rotation slider
    ang,                \* State::ang
    running,            \* State::running
    time_step,          \* State::time_step
    objects,            \* State::objects
    current_state_def,  \* State::current_state_def.objects
    pc,                 \* position in the redraw closure: "frame", "step", "ui"
    idx,                \* the for loop's position in objects (1-based)
    last,               \* the most recent Object::step call, or NoStep
    calls,              \* per object, the states on entry of its step calls so far
    probe,              \* the frame conversions applied to a sample position and velocity
    new_state_def,      \* State::new_state_def (its objects), an Option
    max_t               \* State::render_settings.max_t

vars ==
    <<t, omega, ang, running, time_step, objects, current_state_def, pc, idx, last, calls,
      probe, new_state_def, max_t>>

\* State::default's time_step; the slider of main.rs:134 changes it
DEFAULT_TIME_STEP == RateScale

\* the slider positions explored
TimeSteps == {RateScale, 2 * RateScale}

\* the slider of main.rs:132 ranges over 0.0..=1.0; its two ends are explored
Omegas == {0, 1}

NoStep == [index |-> 0]

\* new_state_def: None, no state definition is being edited
NoStateDef == [some |-> FALSE, val |-> <<>>]

\* no conversion is being followed
NoProbe == [call |-> "none"]

\* variant: the objects built are added to the objects there are
reset_state_extend(state_def) ==
    /\ t' = 0
    /\ ang' = 0
    /\ omega' = 1
    /\ objects' = objects \o build_objects(state_def)

\* variant: the objects are rebuilt while the clock runs on
reset_state_keep_time(state_def) ==
    /\ t' = t
    /\ ang' = ang
    /\ omega' = 1
    /\ objects' = build_objects(state_def)

\* State::reset_state, with the state definition it reads
reset_state(state_def) ==
    /\ t' = 0
    /\ ang' = 0
    /\ omega' = 1
    /\ objects' = build_objects(state_def)

\* State::default
State_default ==
    /\ current_state_def = <<>>
    /\ t = 0
    /\ omega = 1
    /\ ang = 0
    /\ running = FALSE
    /\ time_step = DEFAULT_TIME_STEP
    /\ objects = <<>>
    /\ pc = "frame"
    /\ idx = 0
    /\ last = NoStep
    /\ calls = [i \in 1..Len(objects) |-> <<>>]
    /\ new_state_def = NoStateDef
    /\ max_t = 0

\* the program after construction; no conversion is being followed
Init ==
    /\ State_default
    /\ probe = NoProbe

\* variant: the loop over the objects is entered whether running or not
BeginFrameAlways ==
    /\ pc = "frame"
    /\ t + time_step <= MaxTime
    /\ \A i \in 1..Len(objects) : RK4_is_finite(objects[i], time_step)
    /\ pc' = "step"
    /\ idx' = 1
    /\ UNCHANGED <<t, omega, ang, running, time_step, objects, current_state_def, last, calls, probe,
                   new_state_def, max_t>>

\* main.rs:40: the redraw closure is entered; a running simulation starts
\* the loop over the objects (explored while the tick stays within MaxTime
\* and every object's step stays finite)
BeginFrame ==
    /\ pc = "frame"
    /\ running => /\ t + time_step <= MaxTime
                  /\ \A i \in 1..Len(objects) : RK4_is_finite(objects[i], time_step)
    /\ pc' = IF running THEN "step" ELSE "ui"
    /\ idx' = IF running THEN 1 ELSE idx
    /\ UNCHANGED <<t, omega, ang, running, time_step, objects, current_state_def, last, calls, probe,
                   new_state_def, max_t>>

\* variant: the objects share one trajectory queue
StepObjectSharedPath ==
    /\ pc = "step"
    /\ idx <= Len(objects)
    /\ last' = [index |-> idx, run |-> Object_step_run(objects[idx], time_step)]
    /\ objects' = [j \in 1..Len(objects) |->
                       IF j = idx THEN last'.run.obj
                       ELSE [objects[j] EXCEPT !.path = last'.run.obj.path]]
    /\ calls' = [calls EXCEPT ![idx] = Append(@, objects[idx].sim_state)]
    /\ idx' = idx + 1
    /\ UNCHANGED <<t, omega, ang, running, time_step, current_state_def, pc, probe,
                   new_state_def, max_t>>

\* main.rs:41-43: one iteration of `for obj in &mut state.objects`
StepObject ==
    /\ pc = "step"
    /\ idx <= Len(objects)
    /\ last' = [index |-> idx, run |-> Object_step_run(objects[idx], time_step)]
    /\ objects' = [objects EXCEPT ![idx] = last'.run.obj]
    /\ calls' = [calls EXCEPT ![idx] = Append(@, objects[idx].sim_state)]
    /\ idx' = idx + 1
    /\ UNCHANGED <<t, omega, ang, running, time_step, current_state_def, pc, probe,
                   new_state_def, max_t>>

\* variant: the time advances once the first object has been stepped
AdvanceTimeEarly ==
    /\ pc = "step"
    /\ idx > Min(1, Len(objects))
    /\ t' = t + time_step
    /\ ang' = ang + Div(omega * OMEGA * time_step, RateScale)
    /\ pc' = "ui"
    /\ UNCHANGED <<omega, running, time_step, objects, current_state_def, idx, last, calls, probe,
                   new_state_def, max_t>>

\* main.rs:44-45: after the loop
AdvanceTime ==
    /\ pc = "step"
    /\ idx > Len(objects)
    /\ t' = t + time_step
    /\ ang' = ang + Div(omega * OMEGA * time_step, RateScale)
    /\ pc' = "ui"
    /\ UNCHANGED <<omega, running, time_step, objects, current_state_def, idx, last, calls, probe,
                   new_state_def, max_t>>

\* main.rs:78-80: `if state.running { render_settings.max_t = state.t }`,
\* run in every frame after the buttons of the first row
follow_clock(run, time, m) == IF run THEN time ELSE m

\* main.rs:64-72: the Pause / Resume button
PauseResume ==
    /\ pc = "ui"
    /\ running' = ~running
    /\ max_t' = follow_clock(~running, t, max_t)
    /\ pc' = "frame"
    /\ UNCHANGED <<t, omega, ang, time_step, objects, current_state_def, idx, last, calls, probe,
                   new_state_def>>

\* main.rs:73-75: the Reset button
Reset ==
    /\ pc = "ui"
    /\ reset_state(current_state_def)
    /\ max_t' = follow_clock(running, 0, max_t)
    /\ last' = NoStep
    /\ calls' = [i \in 1..Len(objects') |-> <<>>]
    /\ pc' = "frame"
    /\ UNCHANGED <<running, time_step, current_state_def, idx, probe, new_state_def>>

\* main.rs:81-85: the slider of the time range to render, 0.0..=state.t
SetMaxT ==
    /\ pc = "ui"
    /\ \E m \in 0..t : m # follow_clock(running, t, max_t) /\ max_t' = m
    /\ pc' = "frame"
    /\ UNCHANGED <<t, omega, ang, running, time_step, objects, current_state_def, idx, last,
                   calls, probe, new_state_def>>

\* main.rs:162-164, 186-268: a state definition is made in the editing
\* window and accepted with OK (the frames of the editing one by one:
\* EditNext)
AcceptStateDef ==
    /\ pc = "ui"
    /\ ~new_state_def.some
    /\ \E new_state \in StateDefinitions :
           /\ new_state # current_state_def
           /\ current_state_def' = new_state
           /\ reset_state(new_state)
    /\ max_t' = follow_clock(running, t, max_t)
    /\ last' = NoStep
    /\ calls' = [i \in 1..Len(objects') |-> <<>>]
    /\ pc' = "frame"
    /\ UNCHANGED <<running, time_step, idx, probe, new_state_def>>

\* main.rs:132: the frame-rotation slider
SetOmega ==
    /\ pc = "ui"
    /\ \E w \in Omegas : w # omega /\ omega' = w
    /\ max_t' = follow_clock(running, t, max_t)
    /\ pc' = "frame"
    /\ UNCHANGED <<t, ang, running, time_step, objects, current_state_def, idx, last, calls, probe,
                   new_state_def>>

\* main.rs:134: the time-step slider
SetTimeStep ==
    /\ pc = "ui"
    /\ \E ts \in TimeSteps : ts # time_step /\ time_step' = ts
    /\ max_t' = follow_clock(running, t, max_t)
    /\ pc' = "frame"
    /\ UNCHANGED <<t, omega, ang, running, objects, current_state_def, idx, last, calls, probe,
                   new_state_def>>

\* a frame without input
NoInput ==
    /\ pc = "ui"
    /\ max_t' = follow_clock(running, t, max_t)
    /\ pc' = "frame"
    /\ UNCHANGED <<t, omega, ang, running, time_step, objects, current_state_def, idx, last, calls, probe,
                   new_state_def>>

Next ==
    \/ BeginFrame
    \/ StepObject
    \/ AdvanceTime
    \/ PauseResume
    \/ Reset
    \/ AcceptStateDef
    \/ SetOmega
    \/ SetTimeStep
    \/ NoInput

\* the program with the time range to render left to follow the clock
Spec == Init /\ [][Next]_vars

\* the program with the slider of the time range in use
RenderNext ==
    \/ Next
    \/ SetMaxT

RenderSpec == Init /\ [][RenderNext]_vars

(***************************************************************************)
(* The editing window filled in with texts of every sort                   *)
(* (state/description.rs:123-188, main.rs:266-268).                        *)
(***************************************************************************)
\* the texts typed into the fields: numerals and texts that do not parse
LatTexts == {"0", "90", "north"}

LonTexts == {"0", "90"}

ElevTexts == {"0", "10", ""}

SpeedTexts == {"10", "-10", "fast"}

AzimTexts == {"0", "90", "east"}

CountTexts == {"0", "1", "2", "4", "-10", "many"}

RadiusTexts == {"0", "10", "20", "far"}

Descriptions ==
    {ObjectDescription("Free", lat, lon, elev, vel_e, vel_n, vel_u, "", "") :
        lat \in LatTexts, lon \in LonTexts, elev \in ElevTexts,
        vel_e \in SpeedTexts, vel_n \in SpeedTexts, vel_u \in SpeedTexts}
    \cup
    {ObjectDescription("Foucault", lat, lon, elev, "", "", "", vel, azim) :
        lat \in LatTexts, lon \in LonTexts, elev \in ElevTexts,
        vel \in SpeedTexts, azim \in AzimTexts}
    \cup
    {RingDescription("Cyclone", lat, lon, elev, n_particles, radius, vel) :
        lat \in LatTexts, lon \in LonTexts, elev \in ElevTexts,
        n_particles \in CountTexts, radius \in RadiusTexts, vel \in SpeedTexts}
    \cup
    {RingDescription("Anticyclone", lat, lon, elev, n_particles, "", vel) :
        lat \in LatTexts, lon \in LonTexts, elev \in ElevTexts,
        n_particles \in CountTexts, vel \in SpeedTexts}

\* main.rs:266-268: the first state definition is accepted, one object
\* description in it
EditDescription ==
    /\ pc = "ui"
    /\ current_state_def = <<>>
    /\ \E description \in Descriptions :
           /\ current_state_def' = <<description>>
           /\ reset_state(<<description>>)
    /\ max_t' = follow_clock(running, t, max_t)
    /\ last' = NoStep
    /\ calls' = [i \in 1..Len(objects') |-> <<>>]
    /\ pc' = "frame"
    /\ UNCHANGED <<running, time_step, idx, probe, new_state_def>>

DescriptionNext ==
    \/ BeginFrame
    \/ EditDescription

DescriptionSpec == Init /\ [][DescriptionNext]_vars

(***************************************************************************)
(* The editing window frame by frame (main.rs:162-164, 186-271;            *)
(* interface.rs: display_object).                                          *)
(***************************************************************************)
\* at most MaxObjects descriptions are put into the definition edited
MaxObjects == 2

\* ObjectDescription { kind: ObjectKind::default_free(), ..Default::default() }:
\* what Add pushes while selected_kind is Free, as it is by default
default_free == ObjectDescription("Free", "0", "0", "0", "0", "0", "0", "", "")

\* the texts typed into the elevation field of a description
TypedElevs == {"0", "10"}

\* main.rs:162-164: the Edit state button
EditState ==
    /\ pc = "ui"
    /\ new_state_def' = Some(current_state_def)
    /\ max_t' = follow_clock(running, t, max_t)
    /\ pc' = "frame"
    /\ UNCHANGED <<t, omega, ang, running, time_step, objects, current_state_def, idx, last,
                   calls, probe>>

\* main.rs:220-235: the Add button of the editing window
AddObject ==
    /\ pc = "ui"
    /\ new_state_def.some
    /\ Len(new_state_def.val) < MaxObjects
    /\ new_state_def' = Some(Append(new_state_def.val, default_free))
    /\ max_t' = follow_clock(running, t, max_t)
    /\ pc' = "frame"
    /\ UNCHANGED <<t, omega, ang, running, time_step, objects, current_state_def, idx, last,
                   calls, probe>>

\* new_state_def.objects.remove(index)
remove(defs, index) ==
    [k \in 1..(Len(defs) - 1) |-> IF k < index THEN defs[k] ELSE defs[k + 1]]

\* main.rs:237-250: the Remove button of one description
RemoveObject ==
    /\ pc = "ui"
    /\ new_state_def.some
    /\ \E index \in 1..Len(new_state_def.val) :
           new_state_def' = Some(remove(new_state_def.val, index))
    /\ max_t' = follow_clock(running, t, max_t)
    /\ pc' = "frame"
    /\ UNCHANGED <<t, omega, ang, running, time_step, objects, current_state_def, idx, last,
                   calls, probe>>

\* interface.rs:26-30: a text is typed into the elevation field of one
\* description
EditField ==
    /\ pc = "ui"
    /\ new_state_def.some
    /\ \E index \in 1..Len(new_state_def.val), text \in TypedElevs :
           /\ text # new_state_def.val[index].elev
           /\ new_state_def' =
                  Some([new_state_def.val EXCEPT ![index].elev = text])
    /\ max_t' = follow_clock(running, t, max_t)
    /\ pc' = "frame"
    /\ UNCHANGED <<t, omega, ang, running, time_step, objects, current_state_def, idx, last,
                   calls, probe>>

\* main.rs:255-262: the Cancel button, EditResult::Cancel
Cancel ==
    /\ pc = "ui"
    /\ new_state_def.some
    /\ new_state_def' = NoStateDef
    /\ max_t' = follow_clock(running, t, max_t)
    /\ pc' = "frame"
    /\ UNCHANGED <<t, omega, ang, running, time_step, objects, current_state_def, idx, last,
                   calls, probe>>

\* variant: the definition is installed and the simulation runs on
OkWithoutReset ==
    /\ pc = "ui"
    /\ new_state_def.some
    /\ current_state_def' = new_state_def.val
    /\ new_state_def' = NoStateDef
    /\ max_t' = follow_clock(running, t, max_t)
    /\ pc' = "frame"
    /\ UNCHANGED <<t, omega, ang, running, time_step, objects, idx, last, calls, probe>>

\* main.rs:252-254, 263-268: the OK button, EditResult::Ok
Ok ==
    /\ pc = "ui"
    /\ new_state_def.some
    /\ current_state_def' = new_state_def.val
    /\ new_state_def' = NoStateDef
    /\ reset_state(new_state_def.val)
    /\ max_t' = follow_clock(running, t, max_t)
    /\ last' = NoStep
    /\ calls' = [i \in 1..Len(objects') |-> <<>>]
    /\ pc' = "frame"
    /\ UNCHANGED <<running, time_step, idx, probe>>

EditNext ==
    \/ BeginFrame
    \/ StepObject
    \/ AdvanceTime
    \/ PauseResume
    \/ NoInput
    \/ EditState
    \/ AddObject
    \/ RemoveObject
    \/ EditField
    \/ Cancel
    \/ Ok

EditSpec == Init /\ [][EditNext]_vars

(***************************************************************************)
(* Frame conversions applied to a sample position and velocity             *)
(* (simulation/position.rs:27-50, simulation/velocity.rs:30-53).           *)
(***************************************************************************)
\* at most MaxConversions conversions are applied to one sample
MaxConversions == 3

\* the angular rates converted to: 0, OMEGA, 2 * OMEGA
Rates == {0, OMEGA, 2 * OMEGA}

\* the sample times: multiples of RateScale, at which every frame has made
\* a whole number of quarter turns
SampleTimes == {0, RateScale, 2 * RateScale}

SamplePositions ==
    { [t |-> time, pos |-> coords, omega |-> rate] :
          time \in SampleTimes, coords \in {<<3, 1, -2>>, <<-4, 0, 7>>}, rate \in Rates }

SampleVelocities ==
    { [vel |-> coords, omega |-> rate] : coords \in {<<1, -2, 3>>, <<-5, 4, 0>>}, rate \in Rates }

\* a position p and a velocity v before any conversion
Sample(p, v) ==
    [call |-> "new", p |-> p, v |-> v, pos |-> p, vel |-> v, vel_ref |-> v,
     trail |-> <<>>, w |-> p.omega, arg |-> zeros, dir |-> zeros, n |-> 0]

FrameInit ==
    /\ State_default
    /\ \E p \in SamplePositions, v \in SampleVelocities : probe = Sample(p, v)

\* pos = pos.to_omega(w)
PositionToOmega ==
    /\ probe.call # "none"
    /\ probe.n < MaxConversions
    /\ \E w \in Rates :
           probe' = [probe EXCEPT !.call = "Position::to_omega",
                                  !.w = w,
                                  !.pos = Position_to_omega(probe.pos, w),
                                  !.trail = Append(@, Position_to_omega(probe.pos, w)),
                                  !.n = @ + 1]
    /\ UNCHANGED <<t, omega, ang, running, time_step, objects, current_state_def, pc, idx,
                   last, calls, new_state_def, max_t>>

\* vel = vel.to_omega(pos, w), next to the same conversion with the
\* position as first given
VelocityToOmega ==
    /\ probe.call # "none"
    /\ probe.n < MaxConversions
    /\ \E w \in Rates :
           probe' = [probe EXCEPT !.call = "Velocity::to_omega",
                                  !.w = w,
                                  !.vel = Velocity_to_omega(probe.vel, probe.pos, w),
                                  !.vel_ref = Velocity_to_omega(probe.vel_ref, probe.p, w),
                                  !.n = @ + 1]
    /\ UNCHANGED <<t, omega, ang, running, time_step, objects, current_state_def, pc, idx,
                   last, calls, new_state_def, max_t>>

\* dir = pos.dir_to_omega(arg, w), arg the position's own coordinates or
\* the coordinates of the velocity
DirToOmega ==
    /\ probe.call # "none"
    /\ probe.n < MaxConversions
    /\ \E w \in Rates, arg \in {probe.pos.pos, probe.v.vel} :
           probe' = [probe EXCEPT !.call = "Position::dir_to_omega",
                                  !.w = w,
                                  !.arg = arg,
                                  !.dir = Position_dir_to_omega(probe.pos, arg, w),
                                  !.n = @ + 1]
    /\ UNCHANGED <<t, omega, ang, running, time_step, objects, current_state_def, pc, idx,
                   last, calls, new_state_def, max_t>>

FrameNext ==
    \/ PositionToOmega
    \/ VelocityToOmega
    \/ DirToOmega

FrameSpec == FrameInit /\ [][FrameNext]_vars


(***************************************************************************)
(* Properties of the trajectory history (Object::step, lines 216-219).     *)
(***************************************************************************)
\* the last n entries of a sequence
Recent(seq, n) == SubSeq(seq, Len(seq) - n + 1, Len(seq))

\* C1: at the end of every step, also after more than MAX_PATH_LEN steps,
\* the trajectory history of every object holds at most MAX_PATH_LEN entries.
C1_HistoryBounded ==
    \A i \in 1..Len(objects) : Len(objects[i].path) <= MAX_PATH_LEN

\* an object stepped more than MAX_PATH_LEN times, its history full
C1_Witness ==
    \E i \in 1..Len(objects) :
        /\ Len(calls[i]) > MAX_PATH_LEN
        /\ Len(objects[i].path) = MAX_PATH_LEN

\* C2: after n steps of a freshly built object its history is the sequence
\* of the min(n, MAX_PATH_LEN) most recent states on entry of a step, oldest
\* first (so the entries dropped are the oldest ones), and the current state
\* is not an entry of the history.
C2_HistoryIsRecent ==
    \A i \in 1..Len(objects) :
        /\ objects[i].path = Recent(calls[i], Min(Len(calls[i]), MAX_PATH_LEN))
        /\ \A k \in 1..Len(objects[i].path) : objects[i].path[k] # objects[i].sim_state

\* an object whose oldest pre-step state has been discarded
C2_Witness ==
    \E i \in 1..Len(objects) :
        /\ Len(calls[i]) = MAX_PATH_LEN + 1
        /\ objects[i].path = Tail(calls[i])

\* C3: the history is strictly chronological: the time of every entry is
\* below the time of the next one, and the time of the last entry is below
\* the time of the current state.
C3_Chronological ==
    \A i \in 1..Len(objects) :
        /\ \A k \in 1..(Len(objects[i].path) - 1) :
               objects[i].path[k].pos.t < objects[i].path[k + 1].pos.t
        /\ Len(objects[i].path) > 0 =>
               objects[i].path[Len(objects[i].path)].pos.t < Object_time(objects[i])

\* a history of two entries taken with different time steps
C3_Witness ==
    \E i \in 1..Len(objects) :
        /\ Len(objects[i].path) >= 2
        /\ objects[i].path[2].pos.t - objects[i].path[1].pos.t
               # Object_time(objects[i]) - objects[i].path[2].pos.t

(***************************************************************************)
(* Properties of one Object::step call (lines 215-249).                    *)
(***************************************************************************)
\* the object that the most recent call of Object::step has stepped
Stepped == objects[last.index]

\* the integrated position of the most recent call in the planet's frame
IntegratedPos == Position_to_omega(last.run.integrated.pos, OMEGA).pos

\* C4: in one call of Object::step the state on entry is pushed onto the
\* history first, then the integrator advances that state by dt, then the
\* contact check runs on the integrated state: the history after the call
\* is the history before it plus the one state on entry (trimmed to
\* MAX_PATH_LEN), the new entry is neither the integrated nor the corrected
\* state, and the object after the call is the contact check's result on
\* the integrator's result.
C4_StepPhases ==
    [][(pc = "step" /\ idx <= Len(objects) /\ idx' = idx + 1) =>
          /\ objects'[idx].path =
                 pop_front_if_over(Append(objects[idx].path, objects[idx].sim_state))
          /\ last'.run.integrated =
                 RK4_propagate_in_place(objects[idx], time_step).sim_state
          /\ last'.run.integrated.pos.t = Object_time(objects[idx]) + time_step
          /\ objects'[idx].path[Len(objects'[idx].path)] # last'.run.integrated
          /\ objects'[idx].path[Len(objects'[idx].path)] # objects'[idx].sim_state
          /\ objects'[idx] =
                 Object_surface_contact(
                     [objects[idx] EXCEPT !.path = objects'[idx].path,
                                          !.sim_state = last'.run.integrated]).obj
      ]_vars

\* a step whose integrated state the contact check has corrected
C4_Witness ==
    /\ last.index # 0
    /\ Stepped.path[Len(Stepped.path)] = last.run.entry
    /\ last.run.integrated # last.run.entry
    /\ Stepped.sim_state # last.run.integrated

\* C5: a step of an object in free flight whose integrated position, in the
\* planet's frame, lies at a radial distance below earth_radius of its
\* geocentric latitude ends in ConstantAltitude(0), on that very step.
C5_ContactTransition ==
    (/\ last.index # 0
     /\ last.run.state = FreeFlight
     /\ norm(IntegratedPos) < earth_radius(asin(IntegratedPos[2], norm(IntegratedPos))))
        => Stepped.state = ConstantAltitude(0)

\* an object caught by the surface after earlier steps in free flight
C5_Witness ==
    /\ last.index # 0
    /\ last.run.state = FreeFlight
    /\ norm(IntegratedPos) < earth_radius(asin(IntegratedPos[2], norm(IntegratedPos)))
    /\ Len(calls[last.index]) >= 2
    /\ Stepped.state = ConstantAltitude(0)

\* C6: a step never takes an object at constant altitude (by transition or
\* by with_const_alt) back to free flight.
C6_ContactPermanent ==
    [][pc = "step" =>
          \A i \in 1..Len(objects) :
              objects[i].state.tag = "ConstantAltitude"
                  => objects'[i].state.tag = "ConstantAltitude"
      ]_vars

\* an object at constant altitude stepped to a point above its target
\* radius, and still at constant altitude
C6_Witness ==
    /\ last.index # 0
    /\ last.run.state.tag = "ConstantAltitude"
    /\ last.run.r > last.run.earth_r + last.run.state.alt
    /\ Stepped.state.tag = "ConstantAltitude"

\* the stepped object as the scaling left it, before the normal component
\* of its velocity was looked at
Snapped == [Stepped EXCEPT !.sim_state = last.run.snapped]

\* the position of the stepped object in the planet's frame
SteppedPos == Position_to_omega(Object_pos(Stepped), OMEGA)

\* the most recent step has ended at constant altitude
EndedAtConstAlt == last.index # 0 /\ Stepped.state.tag = "ConstantAltitude"

\* C7: after a step that ends at constant altitude the component of the
\* velocity (planet's frame) along the surface normal is not negative, to
\* within one unit of the grid, the rounding of the cancellation: a
\* component that was negative has been cancelled (it is zero to within one
\* unit), a component that was not negative has been kept with the velocity.
C7_NonPenetrating ==
    EndedAtConstAlt =>
        /\ normal_velocity(Stepped, SteppedPos) >= -1
        /\ normal_velocity(Snapped, SteppedPos) < 0 =>
               normal_velocity(Stepped, SteppedPos) \in -1..1
        /\ normal_velocity(Snapped, last.run.pos) >= 0 =>
               /\ Stepped.sim_state = last.run.snapped
               /\ normal_velocity(Stepped, last.run.pos) >= 0

\* a step that has cancelled a downward velocity of several units
C7_Witness ==
    /\ EndedAtConstAlt
    /\ normal_velocity(Snapped, SteppedPos) < -5
    /\ normal_velocity(Stepped, SteppedPos) \in -1..1

\* the inertial-frame (omega = 0) velocity of the integrated state and of
\* the scaled state of the most recent step
InertialIntegrated ==
    Velocity_to_omega(last.run.integrated.vel, last.run.integrated.pos, 0)

InertialSnapped == Velocity_to_omega(last.run.snapped.vel, last.run.snapped.pos, 0)

\* target_r of the most recent step: earth_radius of the geocentric latitude
\* of the integrated position, plus the altitude h the step has ended with
TargetR ==
    earth_radius(asin(IntegratedPos[2], norm(IntegratedPos))) + Stepped.state.alt

\* C8: after a step that ends in ConstantAltitude(h) the position is the
\* integrated position times target_r / r, target_r = earth_radius + h, so
\* that its radial distance is target_r (to within one unit of the grid);
\* the inertial-frame velocity is the integrated one times r / target_r; and
\* radial distance times inertial speed is the same before and after the
\* scaling, to within the rounding of the three components.
C8_SnapScaling ==
    EndedAtConstAlt =>
        /\ Object_pos(Stepped) =
               Position_mul(last.run.integrated.pos, TargetR, norm(IntegratedPos))
        /\ (norm(SteppedPos.pos) - TargetR) \in -1..1
        /\ InertialSnapped = Velocity_mul(InertialIntegrated, norm(IntegratedPos), TargetR)
        /\ 2 * Abs(TargetR * norm(InertialSnapped.vel)
                   - norm(IntegratedPos) * norm(InertialIntegrated.vel))
               <= 3 * TargetR + norm(IntegratedPos)

\* a step that has moved a moving object outward by more than ten units
C8_Witness ==
    /\ EndedAtConstAlt
    /\ TargetR > norm(IntegratedPos) + 10
    /\ norm(InertialSnapped.vel) + 5 < norm(InertialIntegrated.vel)
    /\ Stepped.state.alt = 0

(***************************************************************************)
(* Properties of the tick (main.rs:40-46).                                 *)
(***************************************************************************)
\* 1 if the loop of the running tick has stepped object j, else 0
SteppedInTick(j) == IF pc = "step" /\ j < idx THEN 1 ELSE 0

\* Inside a tick the objects before the loop's position have been stepped
\* once more than the others, by the current time step; outside a tick all
\* objects have been stepped equally often, up to the global time.
TickProgress ==
    /\ pc = "step" => running
    /\ \A j \in 1..Len(objects) :
           /\ Object_time(objects[j]) = t + SteppedInTick(j) * time_step
           /\ \A k \in 1..Len(objects) :
                  Len(calls[j]) - SteppedInTick(j) = Len(calls[k]) - SteppedInTick(k)

\* a step of the loop steps the object at the loop's position, by time_step
LoopStep ==
    (pc = "step" /\ idx' = idx + 1) =>
        /\ idx <= Len(objects)
        /\ last'.run.dt = time_step
        /\ objects' = [objects EXCEPT ![idx] = Object_step(objects[idx], time_step)]
        /\ t' = t /\ ang' = ang

\* t and ang change after the loop only (or are both reset to zero)
TimeStep ==
    (t' # t \/ ang' # ang) =>
        \/ /\ pc = "step" /\ idx > Len(objects)
           /\ t' = t + time_step
           /\ RateScale * (ang' - ang) = omega * OMEGA * time_step
           /\ objects' = objects
        \/ /\ pc = "ui" /\ t' = 0 /\ ang' = 0

\* C9: on every tick of a running simulation every object is stepped
\* exactly once, by the current time_step, and only after all objects have
\* been stepped t grows by time_step and ang by omega * OMEGA * time_step.
C9_RunningTick == []TickProgress /\ [][LoopStep /\ TimeStep]_vars

\* two ticks with different time steps have stepped two objects at a
\* turning frame
C9_Witness ==
    /\ pc = "ui"
    /\ Len(objects) = 2
    /\ \A j \in 1..2 : Len(calls[j]) = 2 /\ Object_time(objects[j]) = 3 * RateScale
    /\ t = 3 * RateScale
    /\ ang = 3

\* C10: a tick of a simulation that is not running steps no object and
\* leaves the state and the history of every object, t and ang unchanged.
C10_PausedTick ==
    [][(~running /\ pc \in {"frame", "step"}) =>
          /\ objects' = objects
          /\ calls' = calls
          /\ t' = t
          /\ ang' = ang
          /\ pc' = "ui"
      ]_vars

\* the tick of a paused frame has passed, objects in flight
C10_Witness ==
    /\ pc = "ui"
    /\ ~running
    /\ t > 0
    /\ \E j \in 1..Len(objects) : Len(objects[j].path) > 0

(***************************************************************************)
(* Independence of the objects (main.rs:41-43, Object::step).              *)
(***************************************************************************)
RECURSIVE OwnObject(_, _)
\* object number i of the collection as its own description builds it
OwnObject(defs, i) ==
    IF i <= Len(into_objects(Head(defs))) THEN into_objects(Head(defs))[i]
    ELSE OwnObject(Tail(defs), i - Len(into_objects(Head(defs))))

\* the time steps of the calls of Object::step on object i so far
StepsOf(i) ==
    [k \in 1..Len(calls[i]) |->
        (IF k < Len(calls[i]) THEN calls[i][k + 1].pos.t ELSE Object_time(objects[i]))
            - calls[i][k].pos.t]

RECURSIVE SteppedAlone(_, _)
\* obj stepped on its own, once with each of the time steps dts
SteppedAlone(obj, dts) ==
    IF dts = <<>> THEN obj
    ELSE SteppedAlone(Object_step(obj, Head(dts)), Tail(dts))

\* every object is what it would be had it been stepped on its own
OwnHistory ==
    \A i \in 1..Len(objects) :
        objects[i] = SteppedAlone(OwnObject(current_state_def, i), StepsOf(i))

\* a step of the loop leaves the objects it does not step as they are
OthersUntouched ==
    (pc = "step" /\ idx' = idx + 1) =>
        \A j \in 1..Len(objects) : j # idx => objects'[j] = objects[j]

\* C11: objects do not interact: the state, flight state and history of an
\* object are those of the same object stepped on its own with the same
\* time steps, whatever other objects the collection holds and wherever the
\* object stands in it, and stepping one object changes no other object.
C11_NoInteraction == []OwnHistory /\ [][OthersUntouched]_vars

\* two different objects of one collection, each stepped twice
C11_Witness ==
    /\ pc = "ui"
    /\ Len(objects) = 2
    /\ objects[1].sim_state # objects[2].sim_state
    /\ \A j \in 1..2 : Len(calls[j]) >= 2 /\ Len(objects[j].path) = 2

(***************************************************************************)
(* Properties of Object::derivative (object.rs:160-209).                   *)
(***************************************************************************)
\* settings of the builder calls with_friction, with_drag, with_gm,
\* counteract_coriolis, as_pendulum and with_attractor
Frictions == {0, 1}

DragCoeffs == {0, 1}

Gms == {GM, 2 * GM}

Attractors(self) ==
    { NoAttractor,
      [kind |-> "Pendulum", coeff |-> PENDULUM_COEFF,
       anchor |-> Position_from_lat_lon_elev(0, 0, 0)],
      [kind |-> "Cyclone", coeff |-> CYCLONE_COEFF,
       anchor |-> Position_from_lat_lon_elev(0, 90, 0)] }

\* with_drag at constant altitude: the drag of the sea-level air is within
\* the range of the grid's integers for a slow object only
SurfaceDrags(self) ==
    IF norm(vel_diff(self.sim_state)) <= 8 THEN DragCoeffs ELSE {self.drag_coeff}

\* the velocity of an object in the frame of its position
OwnFrameVel(self) ==
    Velocity_to_omega(self.sim_state.vel, self.sim_state.pos, self.sim_state.pos.omega)

\* gravity + centrifugal + Coriolis + drag
InflightAcceleration(self, drag) ==
    VAdd(VAdd(VAdd(Position_grav(self.sim_state.pos, self.gm),
                   Position_centrifugal(self.sim_state.pos)),
              Velocity_coriolis(OwnFrameVel(self))),
         SimState_drag(self.sim_state, drag))

\* Coriolis + friction + drag + attraction + optional counteraction
SurfaceAcceleration(self) ==
    VAdd(VAdd(VAdd(VAdd(Velocity_coriolis(OwnFrameVel(self)),
                        SimState_friction(self.sim_state, self.friction)),
                   SimState_drag(self.sim_state, self.drag_coeff)),
              Object_attraction_force(self)),
         IF self.counteract_coriolis THEN SimState_coriolis_counteraction(self.sim_state)
         ELSE zeros)

\* the curvature correction of an acceleration acc
Conformed(self, acc) ==
    conform(acc, surface_normal(self.sim_state.pos.pos), norm(OwnFrameVel(self).vel),
            r_curv(self.sim_state.pos.pos) + self.state.alt)

\* In free flight the derivative is the velocity, the sum of gravity,
\* centrifugal, Coriolis and drag, and 1, whatever the friction, the
\* attractor and the counteraction flag are.
InflightDispatch(self) ==
    \A friction \in Frictions, drag \in DragCoeffs, c \in BOOLEAN :
        \A attractor \in Attractors(self) :
            Object_derivative([self EXCEPT !.friction = friction,
                                           !.drag_coeff = drag,
                                           !.attractor = attractor,
                                           !.counteract_coriolis = c])
                = from_column_slice(OwnFrameVel(self).vel, InflightAcceleration(self, drag))

\* At constant altitude the derivative is the velocity, the conformed sum
\* of Coriolis, friction, drag, attraction and counteraction, and 1,
\* whatever gm is; gravity and the centrifugal term are no part of it.
SurfaceDispatch(self) ==
    \A gm \in Gms :
        \A friction \in Frictions, drag \in SurfaceDrags(self), c \in BOOLEAN :
            Object_derivative([self EXCEPT !.gm = gm,
                                           !.friction = friction,
                                           !.drag_coeff = drag,
                                           !.counteract_coriolis = c])
                = from_column_slice(
                      OwnFrameVel(self).vel,
                      Conformed(self, SurfaceAcceleration(
                                          [self EXCEPT !.friction = friction,
                                                       !.drag_coeff = drag,
                                                       !.counteract_coriolis = c])))

\* C12: Object::derivative dispatches on the flight state: in FreeFlight
\* the acceleration is gravity + centrifugal + Coriolis + drag (friction,
\* attractor and counteract_coriolis have no effect); in ConstantAltitude it
\* is Coriolis + friction + drag + attraction + optional counteraction with
\* the curvature correction (gm and the centrifugal term have no effect).
C12_DerivativeDispatch ==
    \A i \in 1..Len(objects) :
        IF objects[i].state.tag = "FreeFlight" THEN InflightDispatch(objects[i])
        ELSE SurfaceDispatch(objects[i])

\* an object moving in free flight next to one moving at constant altitude,
\* where gravity is not zero
C12_Witness ==
    \E i, j \in 1..Len(objects) :
        /\ objects[i].state.tag = "FreeFlight"
        /\ objects[j].state.tag = "ConstantAltitude"
        /\ Object_time(objects[i]) > 0
        /\ OwnFrameVel(objects[i]).vel # zeros
        /\ OwnFrameVel(objects[j]).vel # zeros
        /\ SurfaceDrags(objects[j]) = DragCoeffs
        /\ SimState_drag(objects[j].sim_state, 1) # zeros
        /\ Position_grav(objects[j].sim_state.pos, objects[j].gm) # zeros
        /\ Object_attraction_force(
               [objects[j] EXCEPT !.attractor =
                   [kind |-> "Pendulum", coeff |-> PENDULUM_COEFF,
                    anchor |-> Position_from_lat_lon_elev(0, 0, 0)]]) # zeros

\* the time at which the most recent call of Object::step was entered
EntryTime == last.run.entry.pos.t

\* C13: the time component of the derivative is 1 in both flight states,
\* and every call of Object::step(dt) advances the object's time by exactly
\* dt: the integrator's result, the scaled state of the contact correction
\* and the state at the end of the call all carry the time of entry plus dt.
C13_TimeAdvance ==
    /\ \A i \in 1..Len(objects) : Object_derivative(objects[i])[7] = 1
    /\ last.index # 0 =>
           /\ last.run.integrated.pos.t = EntryTime + last.run.dt
           /\ last.run.snapped.pos.t = EntryTime + last.run.dt
           /\ Object_time(Stepped) = EntryTime + last.run.dt

\* a later step of the longer time step whose contact correction has moved
\* the object and changed its velocity
C13_Witness ==
    /\ last.index # 0
    /\ EntryTime > 0
    /\ last.run.dt = 2 * RateScale
    /\ last.run.maybe_target_r.some
    /\ last.run.snapped.pos.pos # last.run.integrated.pos.pos
    /\ Stepped.sim_state.vel # last.run.snapped.vel
    /\ Object_time(Stepped) = EntryTime + 2 * RateScale

(***************************************************************************)
(* The integrator step inside Object::step (object.rs:220).                *)
(***************************************************************************)
\* the object the most recent call handed to the integrator: the state on
\* entry, the history already pushed
Handed ==
    [Stepped EXCEPT !.state = last.run.state, !.sim_state = last.run.entry]

\* the state at which the scheme takes its next derivative: the original
\* state shifted by amount along the derivative k taken before
Stage(k, amount) == Object_shift_in_place(Handed, k, amount)

\* (k1 + 2 k2 + 2 k3 + k4) / 6
WeightedSlope(k1, k2, k3, k4) ==
    [i \in 1..7 |-> Div(k1[i] + 2 * k2[i] + 2 * k3[i] + k4[i], 6)]

\* C14: one integrator step is the 4-stage Runge-Kutta scheme: derivatives
\* k1 at the state handed over, k2 and k3 at that state shifted by dt/2
\* along k1 and along k2, k4 at that state shifted by dt along k3, and the
\* result is that state shifted by dt along (k1 + 2 k2 + 2 k3 + k4) / 6;
\* the four derivatives are all the derivatives that enter the result.
C14_RungeKutta ==
    last.index # 0 =>
        LET k1 == Object_derivative(Handed)
            k2 == Object_derivative(Stage(k1, Div(last.run.dt, 2)))
            k3 == Object_derivative(Stage(k2, Div(last.run.dt, 2)))
            k4 == Object_derivative(Stage(k3, last.run.dt))
        IN  last.run.integrated = Stage(WeightedSlope(k1, k2, k3, k4), last.run.dt).sim_state

\* a step whose four derivatives are four different vectors
C14_Witness ==
    /\ last.index # 0
    /\ LET k1 == Object_derivative(Handed)
           k2 == Object_derivative(Stage(k1, Div(last.run.dt, 2)))
           k3 == Object_derivative(Stage(k2, Div(last.run.dt, 2)))
           k4 == Object_derivative(Stage(k3, last.run.dt))
       IN  /\ Cardinality({k1, k2, k3, k4}) = 4
           /\ last.run.integrated # Stage(k3, last.run.dt).sim_state
    /\ last.run.integrated # last.run.entry

(***************************************************************************)
(* Properties of the frame conversions (position.rs:27-50,                 *)
(* velocity.rs:30-53), over the conversions of FrameSpec.                  *)
(***************************************************************************)
\* C15: identity conversion: a position converted to the rate it is
\* already expressed at comes back identical (coordinates, t and omega),
\* and a velocity converted to its own rate comes back unchanged, whatever
\* position is paired with it.
C15_IdentityConversion ==
    [][/\ (probe'.call = "Position::to_omega" /\ probe'.w = probe.pos.omega)
              => probe'.pos = probe.pos
       /\ (probe'.call = "Velocity::to_omega" /\ probe'.w = probe.vel.omega)
              => probe'.vel = probe.vel
      ]_vars

\* a position, turned before and off the polar axis, was converted to its
\* own rate at a time when that frame had made an odd number of quarter turns
C15_Witness ==
    /\ probe.call = "Position::to_omega"
    /\ Len(probe.trail) = 2
    /\ probe.trail[1].omega = probe.w
    /\ probe.trail[1].pos # probe.p.pos
    /\ probe.trail[2] = probe.trail[1]
    /\ (probe.w * probe.pos.t) % (2 * RateScale) = RateScale

\* every conversion of a position keeps t and the polar coordinate and
\* sets the omega tag to the rate asked for
ConversionKeeps ==
    probe.call = "Position::to_omega" =>
        /\ probe.pos.omega = probe.w
        /\ \A k \in 1..Len(probe.trail) :
               /\ probe.trail[k].t = probe.p.t
               /\ probe.trail[k].pos[2] = probe.p.pos[2]

\* C16: frame round trip: a position converted to a rate w1, then to a rate
\* w2, then back to its own rate equals the position it was (and so does
\* every chain of conversions that ends at the position's own rate); every
\* conversion leaves t and the polar coordinate alone and sets omega.
C16_FrameRoundTrip ==
    /\ ConversionKeeps
    /\ (probe.call # "none" /\ probe.pos.omega = probe.p.omega) => probe.pos = probe.p

\* a round trip through two other rates, each conversion turning the
\* coordinates by an odd number of quarter turns or by a half turn
C16_Witness ==
    /\ Len(probe.trail) = 3
    /\ probe.n = 3
    /\ probe.trail[1].omega # probe.p.omega
    /\ probe.trail[2].omega \notin {probe.p.omega, probe.trail[1].omega}
    /\ probe.trail[1].pos # probe.p.pos
    /\ probe.trail[2].pos \notin {probe.p.pos, probe.trail[1].pos}
    /\ probe.trail[3] = probe.p

\* C17: dir_to_omega turns a free vector by the angle, and in the sense, by
\* which to_omega turns the position's own coordinates: given the
\* position's coordinates it returns the coordinates of the converted
\* position, and for the position's own rate it returns the vector given.
C17_DirToOmega ==
    probe.call = "Position::dir_to_omega" =>
        /\ probe.arg = probe.pos.pos => probe.dir = Position_to_omega(probe.pos, probe.w).pos
        /\ probe.w = probe.pos.omega => probe.dir = probe.arg

\* the position's coordinates turned by an odd number of quarter turns
C17_Witness ==
    /\ probe.call = "Position::dir_to_omega"
    /\ probe.arg = probe.pos.pos
    /\ ((probe.w - probe.pos.omega) * probe.pos.t) % (2 * RateScale) = RateScale
    /\ probe.dir # probe.arg
    /\ probe.dir = Position_to_omega(probe.pos, probe.w).pos

\* C18: Velocity::to_omega brings the position given to the velocity's own
\* rate first, so that the result is the same in whatever frame the position
\* is given: the velocity converted with the position as converted so far
\* equals the velocity converted with the position as first given.
C18_PositionFrameFree == probe.call # "none" => probe.vel = probe.vel_ref

\* a velocity converted with a position that had been turned into a frame
\* other than the velocity's
C18_Witness ==
    /\ probe.call = "Velocity::to_omega"
    /\ probe.pos.omega \notin {probe.p.omega, probe.v.omega}
    /\ probe.pos.pos # probe.p.pos
    /\ probe.p.omega # probe.v.omega
    /\ Position_to_omega(probe.p, probe.v.omega).pos # probe.pos.pos
    /\ probe.vel.omega # probe.v.omega
    /\ probe.vel.vel # probe.v.vel
    /\ probe.vel = probe.vel_ref

(***************************************************************************)
(* Properties of ObjectDescription::into_objects and of cyclone            *)
(* (description.rs:110-189, utils.rs:7-81), over DescriptionSpec.          *)
(***************************************************************************)
\* the description accepted
Described == current_state_def[1]

\* the texts that are numerals, and those that are numerals of a count
NumeralTexts == {"0", "1", "2", "4", "10", "20", "90", "-10"}

CountNumerals == ("0" :> 0) @@ ("1" :> 1) @@ ("2" :> 2) @@ ("4" :> 4)

\* the description with "0" in the place of every text that does not parse
Zeroed(description) ==
    [field \in DOMAIN description |->
        CASE field = "kind" -> description[field]
          [] field = "n_particles" ->
                 IF description[field] \in DOMAIN CountNumerals THEN description[field]
                 ELSE "0"
          [] OTHER ->
                 IF description[field] \in NumeralTexts THEN description[field] ELSE "0"]

\* the number of objects a description stands for
ParticleCount(description) ==
    CASE description.kind \in {"Free", "Foucault"} -> 1
      [] description.n_particles \in DOMAIN CountNumerals ->
             CountNumerals[description.n_particles]
      [] OTHER -> 0

\* C19: parsing failures never reach the simulation: into_objects returns
\* objects for every combination of texts; a text that does not parse
\* counts as 0, so the objects are those of the description with "0" in
\* its place; a Free or Foucault description gives exactly one object, a
\* Cyclone or Anticyclone description exactly n_particles objects, none
\* when n_particles does not parse.
C19_ParseFailuresAbsorbed ==
    current_state_def # <<>> =>
        /\ Len(objects) = ParticleCount(Described)
        /\ objects = into_objects(Zeroed(Described))
        /\ \A i \in 1..Len(objects) :
               /\ objects[i].sim_state.pos.pos \in Int \X Int \X Int
               /\ objects[i].sim_state.pos.pos # zeros
               /\ objects[i].sim_state.vel.vel \in Int \X Int \X Int

\* a cyclone of four objects whose latitude and radius do not parse
C19_Witness ==
    /\ current_state_def # <<>>
    /\ Described.kind = "Cyclone"
    /\ Described.lat = "north"
    /\ Described.radius = "far"
    /\ Described.n_particles = "4"
    /\ Described.vel = "10"
    /\ Len(objects) = 4
    /\ Cardinality({objects[i].sim_state.vel.vel : i \in 1..4}) = 4

\* a cyclone around lat = 0, lon = 0, elev = 0 with numerals in all fields
RingAccepted ==
    /\ current_state_def # <<>>
    /\ Described.kind = "Cyclone"
    /\ Described.lat = "0" /\ Described.lon = "0" /\ Described.elev = "0"
    /\ Described.n_particles \in {"1", "2", "4"}
    /\ Described.radius \in {"0", "10", "20"}
    /\ Described.vel \in {"10", "-10"}

RingN == Numerals[Described.n_particles]

\* the radius of the ring as an angle at the centre of the sphere, in
\* quarter turns (R / MEAN_RADIUS)
RingAngle == Div(Numerals[Described.radius] * KM, MEAN_RADIUS)

RingV == Numerals[Described.vel]

RingCentre == Position_from_lat_lon_elev(0, 0, 0).pos

\* object i stands at the angle RingAngle from the centre
AtRingDistance(i) ==
    dot(RingCentre, objects[i].sim_state.pos.pos)
        = norm(RingCentre) * norm(objects[i].sim_state.pos.pos) * Cos(RingAngle)

\* object i stands at azimuth (i - 1) * 360 / n from the centre (north is
\* the polar axis, east the x axis at lat = 0, lon = 0)
AtRingAzimuth(i) ==
    objects[i].sim_state.pos.pos =
        VScale(Vector3(Sin(ring_azim(RingN, i - 1)), Cos(ring_azim(RingN, i - 1)), 0),
               norm(objects[i].sim_state.pos.pos))

\* the velocity of object i along the ring (the tangent of the circle
\* around the centre), times the lengths of the two position vectors
AlongRing(i) == dot(objects[i].sim_state.vel.vel, cross(RingCentre, objects[i].sim_state.pos.pos))

\* the velocity of object i towards the centre, times the length of the
\* centre's position vector (the ring a quarter turn away)
TowardsCentre(i) == dot(objects[i].sim_state.vel.vel, RingCentre)

StayedAloft ==
    /\ last.index # 0
    /\ last.run.state = FreeFlight
    /\ norm(IntegratedPos) >= earth_radius(asin(IntegratedPos[2], norm(IntegratedPos)))

\* C21: a step of an object in free flight whose integrated position has a
\* radial distance r >= earth_radius of its geocentric latitude, equality
\* included, leaves the object in free flight and corrects nothing: the
\* position and the velocity after the step are the integrator's output.
C21_NoContactNoCorrection ==
    StayedAloft =>
        /\ Stepped.state = FreeFlight
        /\ Stepped.sim_state = last.run.integrated
        /\ last.run.maybe_target_r = None

\* a step in free flight that has ended exactly at the surface radius,
\* moving
C21_Witness ==
    /\ StayedAloft
    /\ norm(IntegratedPos) = earth_radius(asin(IntegratedPos[2], norm(IntegratedPos)))
    /\ last.run.integrated # last.run.entry
    /\ Stepped.state = FreeFlight

\* the altitude an object is held at from its first step on: the altitude
\* it was built with (with_const_alt), 0 if it was built in free flight
HeldAltitude(i) ==
    IF OwnObject(current_state_def, i).state.tag = "ConstantAltitude"
    THEN OwnObject(current_state_def, i).state.alt
    ELSE 0

\* a step of an object in ConstantAltitude(h) snaps it to earth_radius + h
\* and leaves it in ConstantAltitude(h)
SnapReapplied ==
    (pc = "step" /\ idx <= Len(objects) /\ idx' = idx + 1
        /\ objects[idx].state.tag = "ConstantAltitude") =>
        /\ last'.run.maybe_target_r =
               Some(earth_radius(asin(IntegratedPos'[2], norm(IntegratedPos')))
                        + objects[idx].state.alt)
        /\ last'.run.snapped.pos =
               Position_mul(last'.run.integrated.pos, last'.run.maybe_target_r.val,
                            norm(IntegratedPos'))
        /\ objects'[idx].state =
               ConstantAltitude(last'.run.maybe_target_r.val - last'.run.earth_r)
        /\ objects'[idx].state = objects[idx].state

\* every object at constant altitude is at the altitude it is held at
AltitudeHeld ==
    \A i \in 1..Len(objects) :
        objects[i].state.tag = "ConstantAltitude" =>
            objects[i].state.alt = HeldAltitude(i)

\* C22: every step of an object in ConstantAltitude(h) re-applies the snap
\* with target radius earth_radius + h and sets the state to
\* ConstantAltitude(target_r - earth_r), so h is the same after any number
\* of steps, also h = 0 after a ground-contact transition.
C22_AltitudeKept == []AltitudeHeld /\ [][SnapReapplied]_vars

\* an object caught by the surface has been stepped on at altitude 0, its
\* last step snapped from another radius, next to an object held at the
\* altitude it was built with through three steps
C22_Witness ==
    /\ last.index # 0
    /\ OwnObject(current_state_def, last.index).state = FreeFlight
    /\ last.run.state = ConstantAltitude(0)
    /\ Stepped.state = ConstantAltitude(0)
    /\ last.run.r # last.run.earth_r
    /\ \E i \in 1..Len(objects) :
           /\ OwnObject(current_state_def, i).state.tag = "ConstantAltitude"
           /\ HeldAltitude(i) > 0
           /\ Len(calls[i]) >= 3
           /\ objects[i].state = ConstantAltitude(HeldAltitude(i))

(***************************************************************************)
(* Properties of shift_in_place (object.rs:394-405), over the shifts of    *)
(* the integrator step of the most recent call of Object::step.            *)
(***************************************************************************)
\* out is self with dir[0..3] * amount added to the position coordinates,
\* dir[3..6] * amount to the velocity vector, dir[6] * amount to the time,
\* and nothing else changed
ShiftedBy(self, out, dir, amount) ==
    /\ \A c \in 1..3 :
           /\ out.sim_state.pos.pos[c] = self.sim_state.pos.pos[c] + dir[c] * amount
           /\ out.sim_state.vel.vel[c] = self.sim_state.vel.vel[c] + dir[c + 3] * amount
    /\ out.sim_state.pos.t = self.sim_state.pos.t + dir[7] * amount
    /\ out.sim_state.pos.omega = self.sim_state.pos.omega
    /\ out.sim_state.vel.omega = self.sim_state.vel.omega
    /\ DOMAIN out.sim_state = {"pos", "vel"}
    /\ [out EXCEPT !.sim_state = self.sim_state] = self

\* C23: shift_in_place(dir, amount) adds dir[0..3] * amount to the position
\* coordinates, dir[3..6] * amount to the velocity vector and
\* dir[6] * amount to the timestamp and changes nothing else (omega tags,
\* history, flight state, physical parameters): so for the three stage
\* shifts of a step and for the final shift, whose result is the
\* integrated state of the call.
C23_ShiftInPlace ==
    last.index # 0 =>
        LET h  == last.run.dt
            k1 == Object_derivative(Handed)
            k2 == Object_derivative(Stage(k1, Div(h, 2)))
            k3 == Object_derivative(Stage(k2, Div(h, 2)))
            k4 == Object_derivative(Stage(k3, h))
        IN  /\ ShiftedBy(Handed, Stage(k1, Div(h, 2)), k1, Div(h, 2))
            /\ ShiftedBy(Handed, Stage(k2, Div(h, 2)), k2, Div(h, 2))
            /\ ShiftedBy(Handed, Stage(k3, h), k3, h)
            /\ ShiftedBy(Handed, [Handed EXCEPT !.sim_state = last.run.integrated],
                         WeightedSlope(k1, k2, k3, k4), h)

\* a step whose final shift has changed every coordinate of the position
\* and of the velocity of an object with a history, at constant altitude
C23_Witness ==
    /\ last.index # 0
    /\ last.run.state.tag = "ConstantAltitude"
    /\ Len(Handed.path) >= 2
    /\ Cardinality({c \in 1..3 :
                      /\ last.run.integrated.pos.pos[c] # last.run.entry.pos.pos[c]
                      /\ last.run.integrated.vel.vel[c] # last.run.entry.vel.vel[c]}) >= 2
    /\ last.run.integrated.pos.t = last.run.entry.pos.t + last.run.dt

(***************************************************************************)
(* The frame tags of the objects (position.rs:14-21, velocity.rs:13-28,    *)
(* object.rs:233-248).                                                     *)
(***************************************************************************)
\* position and velocity of a state are both tagged with the planet's rate
PlanetTagged(sim_state) ==
    /\ sim_state.pos.omega = OMEGA
    /\ sim_state.vel.omega = OMEGA

\* C24: in every reachable state the omega tag of the position and the
\* omega tag of the velocity of every object are equal to each other and
\* to OMEGA: objects are built with both tags at OMEGA, and neither the
\* integration nor the snap through the omega = 0 frame nor the
\* cancellation of the normal velocity leaves a tag changed (so also for
\* every state kept in the history, the integrated and the scaled state).
C24_PlanetFrameTags ==
    /\ \A i \in 1..Len(objects) :
           /\ objects[i].sim_state.pos.omega = objects[i].sim_state.vel.omega
           /\ PlanetTagged(objects[i].sim_state)
           /\ \A k \in 1..Len(objects[i].path) : PlanetTagged(objects[i].path[k])
    /\ last.index # 0 =>
           /\ PlanetTagged(last.run.integrated)
           /\ PlanetTagged(last.run.snapped)

\* an object whose step has scaled its velocity in the inertial frame and
\* cancelled its normal component, while the frame slider stands at 0
C24_Witness ==
    /\ last.index # 0
    /\ omega = 0
    /\ last.run.maybe_target_r.some
    /\ last.run.snapped.vel # last.run.integrated.vel
    /\ Stepped.sim_state.vel # last.run.snapped.vel
    /\ PlanetTagged(Stepped.sim_state)
    /\ Len(Stepped.path) >= 2

(***************************************************************************)
(* The clocks of the objects and the global time (main.rs:40-46,           *)
(* State::reset_state, Object::time).                                      *)
(***************************************************************************)
\* the tick of the current frame is over (or the frame has not begun it)
TickOver == pc \in {"ui", "frame"}

\* C25: at the end of every tick every object of the collection has a
\* timestamp equal to the global time t: reset_state builds all objects at
\* time 0 and sets t to 0, and a running tick advances both by the same
\* time_step, also when time_step changes between ticks or the simulation
\* is paused and resumed.
C25_ClocksAgree ==
    TickOver => \A i \in 1..Len(objects) : Object_time(objects[i]) = t

\* two objects, one of them caught by the surface, after ticks of both
\* time steps, the simulation paused
C25_Witness ==
    /\ pc = "ui"
    /\ ~running
    /\ t >= 3 * RateScale
    /\ t % (2 * RateScale) # 0
    /\ Len(objects) = 2
    /\ \E i \in 1..2 : objects[i].state.tag = "ConstantAltitude"
                          /\ OwnObject(current_state_def, i).state = FreeFlight
    /\ \A i \in 1..2 : Object_time(objects[i]) = t

(***************************************************************************)
(* The state shown for the time range max_t (Object::draw, object.rs:      *)
(* 257-267; Object::status, object.rs:352-363), over RenderSpec.           *)
(***************************************************************************)
\* a frame has been shown: the interface pass, which calls Object::status,
\* and the drawing, which calls Object::draw, are over
FrameShown == pc = "frame"

\* the state Object::draw draws object i as
Drawn(i) == Object_draw_state(objects[i], max_t)

\* the state Object::status reports of object i
Reported(i) == Object_status_state(objects[i], max_t)

\* C26: for any max_t the state that Object::draw renders as the object
\* (the last state it keeps) and the state that Object::status reports are
\* the same state; while the simulation is running (max_t equal to the
\* time of the object) both are the current state of the object.
C26_DrawnIsReported ==
    FrameShown =>
        \A i \in 1..Len(objects) :
            /\ Drawn(i) = Reported(i)
            /\ (running /\ max_t = Object_time(objects[i])) =>
                   /\ Drawn(i) = objects[i].sim_state
                   /\ Reported(i) = objects[i].sim_state

\* the entries of the history of object i that are not later than max_t
NotLater(i) == {k \in 1..Len(objects[i].path) : objects[i].path[k].pos.t <= max_t}

\* C27: Object::status reports the current state when max_t >= the time
\* of the object; when max_t < the time of the object it reports the most
\* recent history entry whose timestamp is <= max_t, and when no entry
\* qualifies (older entries dropped from the bounded history) it reports
\* the current state, not the oldest entry kept.
C27_StatusState ==
    FrameShown =>
        \A i \in 1..Len(objects) :
            /\ max_t >= Object_time(objects[i]) => Reported(i) = objects[i].sim_state
            /\ (max_t < Object_time(objects[i]) /\ NotLater(i) # {}) =>
                   \E k \in NotLater(i) :
                       /\ \A j \in NotLater(i) : j <= k
                       /\ Reported(i) = objects[i].path[k]
            /\ (max_t < Object_time(objects[i]) /\ NotLater(i) = {}) =>
                   Reported(i) = objects[i].sim_state

\* the time range ends before the oldest entry kept of an object whose
\* first entries have been dropped, and the current state is reported
C27_Witness ==
    /\ FrameShown
    /\ \E i \in 1..Len(objects) :
           /\ Len(calls[i]) > MAX_PATH_LEN
           /\ max_t > 0
           /\ max_t < objects[i].path[1].pos.t
           /\ NotLater(i) = {}
           /\ Reported(i) = objects[i].sim_state
           /\ Reported(i) # objects[i].path[1]

(***************************************************************************)
(* State::reset_state (state/mod.rs:136-146), called by the Reset button   *)
(* and on OK in the editing window.                                        *)
(***************************************************************************)
RECURSIVE CountObjects(_)
\* the number of objects the descriptions of a state definition stand for
CountObjects(defs) ==
    IF defs = <<>> THEN 0 ELSE Len(into_objects(Head(defs))) + CountObjects(Tail(defs))

\* the objects are those built, in order, from the state definition, fresh
FreshObjects(objs, defs) ==
    /\ Len(objs) = CountObjects(defs)
    /\ \A i \in 1..Len(objs) :
           /\ objs[i] = OwnObject(defs, i)
           /\ objs[i].path = <<>>
           /\ Object_time(objs[i]) = 0

\* the step of a frame in which the Reset button is pressed: reset_state,
\* then the interface pass's own update of max_t with the new t
ResetEffect ==
    Reset =>
        /\ t' = 0 /\ ang' = 0 /\ omega' = 1
        /\ FreshObjects(objects', current_state_def)
        /\ running' = running
        /\ time_step' = time_step
        /\ current_state_def' = current_state_def
        /\ new_state_def' = new_state_def
        /\ ~running => max_t' = max_t
        /\ running => max_t' = t'

\* the step of a frame in which a new state definition is accepted:
\* reset_state after current_state_def has been replaced
AcceptEffect ==
    (pc = "ui" /\ current_state_def' # current_state_def) =>
        /\ t' = 0 /\ ang' = 0 /\ omega' = 1
        /\ FreshObjects(objects', current_state_def')
        /\ running' = running
        /\ time_step' = time_step
        /\ max_t' = follow_clock(running, t, max_t)

\* C28: State::reset_state sets t = 0, ang = 0 and omega = 1.0 and
\* replaces the object collection by the objects built, in order, from
\* current_state_def (all fresh: time 0, empty history, flight state as
\* built); it leaves running, time_step, current_state_def, new_state_def
\* and max_t unchanged (in a running frame the interface pass then sets
\* max_t to the new t).
C28_ResetState == [][ResetEffect /\ AcceptEffect]_vars

\* reset while paused, after a run with the longer time step and the frame
\* slider at 0: two fresh objects, the time range still that of the run
C28_Witness ==
    /\ pc = "frame"
    /\ ~running
    /\ t = 0 /\ ang = 0 /\ omega = 1
    /\ max_t > 0
    /\ time_step = 2 * RateScale
    /\ Len(current_state_def) = 2
    /\ FreshObjects(objects, current_state_def)
    /\ \E i \in 1..Len(objects) : objects[i].state.tag = "ConstantAltitude"

(***************************************************************************)
(* Isolation of the editing window (main.rs:162-164, 186-271), over        *)
(* EditSpec.                                                               *)
(***************************************************************************)
\* the definition in use and the live simulation are as they were
LiveUnchanged ==
    /\ current_state_def' = current_state_def
    /\ objects' = objects
    /\ t' = t
    /\ ang' = ang

\* the interface pass of a frame: with a definition being edited after it,
\* nothing live has changed; with none, either nothing live has changed or
\* the definition edited has been installed and the simulation reset
EditIsolated ==
    pc = "ui" =>
        /\ new_state_def'.some => LiveUnchanged
        /\ ~new_state_def'.some =>
               \/ LiveUnchanged
               \/ /\ new_state_def.some
                  /\ current_state_def' = new_state_def.val
                  /\ t' = 0 /\ ang' = 0
                  /\ objects' = build_objects(new_state_def.val)

\* the buttons one by one
EditButtons ==
    /\ EditState => new_state_def' = Some(current_state_def) /\ LiveUnchanged
    /\ (AddObject \/ RemoveObject \/ EditField) =>
           /\ new_state_def'.some
           /\ new_state_def' # new_state_def
           /\ LiveUnchanged
    /\ Cancel => ~new_state_def'.some /\ LiveUnchanged
    /\ Ok => /\ ~new_state_def'.some
             /\ current_state_def' = new_state_def.val
             /\ t' = 0 /\ ang' = 0
             /\ objects' = build_objects(current_state_def')
             /\ \A i \in 1..Len(objects') : Object_time(objects'[i]) = 0

\* the tick of a frame leaves both definitions alone
TickLeavesDefinitions ==
    pc \in {"frame", "step"} =>
        /\ new_state_def' = new_state_def
        /\ current_state_def' = current_state_def

\* C29: editing is isolated until confirmed: Edit state copies
\* current_state_def into new_state_def; adding, removing or editing
\* descriptions changes only new_state_def; Cancel discards new_state_def
\* and leaves current_state_def, the live objects, t and ang unchanged; OK
\* installs the edited definition as current_state_def and resets the
\* simulation (t = 0, objects rebuilt); after OK or Cancel new_state_def is
\* absent.
C29_EditingIsolated == [][EditIsolated /\ EditButtons /\ TickLeavesDefinitions]_vars

\* a definition of two descriptions is being edited, different from the
\* one in use, while the object of the definition in use has been stepped
C29_Witness ==
    /\ new_state_def.some
    /\ Len(new_state_def.val) = 2
    /\ new_state_def.val[1] # new_state_def.val[2]
    /\ Len(current_state_def) = 1
    /\ current_state_def[1] # default_free
    /\ t > 0
    /\ Len(objects) = 1
    /\ Len(objects[1].path) >= 2

\* C30: a velocity converted to a rate w with a position p and converted
\* back to the rate it had, with the same position p, is the velocity it
\* was: the shear added on the way is removed on the way back and the
\* rotation is undone.
C30_VelocityRoundTrip ==
    [][probe'.call = "Velocity::to_omega"
           => Velocity_to_omega(probe'.vel, probe.pos, probe.vel.omega) = probe.vel]_vars

\* a velocity converted to another rate at a time when the frames differ by
\* an odd number of quarter turns, with a position off the polar axis, so
\* that both the shear and the rotation changed its coordinates
C30_Witness ==
    /\ probe.call = "Velocity::to_omega"
    /\ probe.n = 1
    /\ probe.vel.omega # probe.v.omega
    /\ ((probe.vel.omega - probe.v.omega) * probe.pos.t) % (2 * RateScale) = RateScale
    /\ rot_y(probe.v.vel, -Div((probe.vel.omega - probe.v.omega) * probe.pos.t, RateScale))
           # probe.vel.vel
    /\ probe.vel.vel # probe.v.vel
    /\ Velocity_to_omega(probe.vel, probe.pos, probe.v.omega) = probe.v

====
